---- MODULE Spec2Model ----
(***************************************************************************)
(* Model of the API adaptation layer of src/lib/api.ts: the two facade     *)
(* operations planPresentation / generateSlideImage, the four direct-mode  *)
(* request functions with their abort timers, the three stream             *)
(* reassembly loops (direct OpenAI, direct Vertex, server proxy) and the    *)
(* image extraction.                                                        *)
(*                                                                         *)
(* Text is modelled as a sequence of units.  On the wire a unit is one of  *)
(* "data:", " ", "\n" or a payload token standing for one JSON text; in     *)
(* the accumulated model output a unit is one of "{", "t", "s", "}".        *)
(***************************************************************************)
EXTENDS Integers, Sequences, FiniteSets, TLC

\* ------------------------------------------------------------------ bounds
MaxLines == 3

\* --------------------------------------------------------- program constants
DefaultTimeoutMs == 180000

\* ------------------------------------------------------------ configuration
VERTEX_AI == "vertex_ai"
OPENAI == "openai"
CLIENT_DIRECT == "client_direct"
SERVER_PROXY == "server_proxy"

NoConfig == [protocol |-> "none", requestMode |-> "none"]

ApiConfigs == [protocol : {VERTEX_AI, OPENAI}, requestMode : {CLIENT_DIRECT, SERVER_PROXY}]

\* ------------------------------------------------------------- text helpers
NL == "\n"

DataPrefix == <<"data:", " ">>

\* String.prototype.startsWith
StartsWith(line, prefix) ==
    /\ Len(line) >= Len(prefix)
    /\ SubSeq(line, 1, Len(prefix)) = prefix

\* String.prototype.slice(n) for 0 <= n
Slice(line, n) == SubSeq(line, n + 1, Len(line))

\* String.prototype.split("\n"): the segments between the newlines, the last
\* one being what follows the last newline (possibly empty).
RECURSIVE SplitFrom(_, _, _)
SplitFrom(s, i, cur) ==
    IF i > Len(s) THEN <<cur>>
    ELSE IF s[i] = NL THEN <<cur>> \o SplitFrom(s, i + 1, <<>>)
    ELSE SplitFrom(s, i + 1, Append(cur, s[i]))

Split(s) == SplitFrom(s, 1, <<>>)

\* The lines with the unterminated last segment among them.
FrontWithPartial(ls) == ls

\* lines.pop() || "" leaves the complete lines and yields the carry-over
Front(ls) == SubSeq(ls, 1, Len(ls) - 1)
Last(ls) == ls[Len(ls)]

RECURSIVE Flatten(_)
Flatten(ss) == IF ss = <<>> THEN <<>> ELSE Head(ss) \o Flatten(Tail(ss))

\* ------------------------------------------------------------------- errors
NoError == [name |-> "", message |-> <<>>]

Error(msg) == [name |-> "Error", message |-> msg]

SyntaxError(msg) == [name |-> "SyntaxError", message |-> <<msg>>]

TypeError(msg) == [name |-> "TypeError", message |-> <<msg>>]

UnexpectedEnd == "Unexpected end of JSON input"
UnexpectedToken == "Unexpected token"

StatusText == "Bad Gateway"

\* What the caller's progress callback throws when it throws.
CallbackError == Error(<<"callback failed">>)

\* --------------------------------------------------------------- JSON.parse
\* The normalized planning result; present = FALSE stands for undefined.
NoPlan == [present |-> FALSE, title |-> FALSE, slides |-> FALSE, id |-> 0]

PlanResult(n) == [present |-> TRUE, title |-> TRUE, slides |-> TRUE, id |-> n]

\* A JSON object with a title and no slides.
TitleOnly(n) == [present |-> TRUE, title |-> TRUE, slides |-> FALSE, id |-> n]

\* A parsed JSON value, reduced to the fields the layer reads.  An absent
\* (undefined) string field is <<>> or "", which is falsy like the empty string.
EmptyValue ==
    [content |-> <<>>, text |-> <<>>, chunk |-> <<>>, error |-> "",
     errorMessage |-> "", done |-> FALSE, result |-> NoPlan, plan |-> NoPlan]

DeltaA == <<"{", "t">>
DeltaB == <<"s", "}">>
DeltaC == <<"}">>

\* The JSON texts a payload token stands for.
TokenValue ==
    [tok \in {"oA", "oB", "oNone", "vA", "vB", "vC", "vNone", "pA", "pB", "pErr", "pErrEnd",
              "pDone1", "pDone2", "eMsg", "eNoMsg"} |->
        CASE tok = "oA" -> [EmptyValue EXCEPT !.content = DeltaA]
          [] tok = "oB" -> [EmptyValue EXCEPT !.content = DeltaB]
          [] tok = "vA" -> [EmptyValue EXCEPT !.text = DeltaA]
          [] tok = "vB" -> [EmptyValue EXCEPT !.text = DeltaB]
          [] tok = "vC" -> [EmptyValue EXCEPT !.text = DeltaC]
          [] tok = "pA" -> [EmptyValue EXCEPT !.chunk = DeltaA]
          [] tok = "pB" -> [EmptyValue EXCEPT !.chunk = DeltaB]
          [] tok = "pErr" -> [EmptyValue EXCEPT !.error = "E"]
          [] tok = "pErrEnd" -> [EmptyValue EXCEPT !.error = UnexpectedEnd]
          [] tok = "pDone1" -> [EmptyValue EXCEPT !.done = TRUE, !.result = PlanResult(1)]
          [] tok = "pDone2" -> [EmptyValue EXCEPT !.done = TRUE, !.result = TitleOnly(2)]
          [] tok = "eMsg" -> [EmptyValue EXCEPT !.errorMessage = "M"]
          [] OTHER -> EmptyValue]

\* Units of a JSON object text written out unit by unit: "{" fields "}".
FieldUnits == {"t", "s"}

RECURSIVE IndexOf(_, _, _)
IndexOf(s, u, i) ==
    IF i > Len(s) THEN 0 ELSE IF s[i] = u THEN i ELSE IndexOf(s, u, i + 1)

ParseOk(v) == [ok |-> TRUE, err |-> "", val |-> v]
ParseFail(msg) == [ok |-> FALSE, err |-> msg, val |-> EmptyValue]

\* JSON.parse: the value of a JSON text, or the SyntaxError it throws.  The
\* empty text and a text that stops inside an object end in "Unexpected end
\* of JSON input"; any other malformed text in "Unexpected token".
JSONparse(s) ==
    IF s = <<>> THEN ParseFail(UnexpectedEnd)
    ELSE IF Len(s) = 1 /\ s[1] \in DOMAIN TokenValue THEN ParseOk(TokenValue[s[1]])
    ELSE IF s = <<"trunc">> THEN ParseFail(UnexpectedEnd)
    ELSE IF s[1] = "{" THEN
        LET close == IndexOf(s, "}", 2)
            last == IF close = 0 THEN Len(s) ELSE close - 1
            fieldsOk == \A i \in 2..last : s[i] \in FieldUnits
            fields == {s[i] : i \in 2..last}
        IN  IF ~fieldsOk THEN ParseFail(UnexpectedToken)
            ELSE IF close = 0 THEN ParseFail(UnexpectedEnd)
            ELSE IF close < Len(s) THEN ParseFail(UnexpectedToken)
            ELSE ParseOk([EmptyValue EXCEPT !.plan =
                    [present |-> TRUE, title |-> "t" \in fields,
                     slides |-> "s" \in fields, id |-> 0]])
    ELSE ParseFail(UnexpectedToken)

\* --------------------------------------------------------- result normalizer
RECURSIVE LastIndexOf(_, _, _)
LastIndexOf(s, u, i) ==
    IF i < 1 THEN 0 ELSE IF s[i] = u THEN i ELSE LastIndexOf(s, u, i - 1)

\* cleanJsonString (lib/utils): drops code-fence markers and prose around the
\* outermost "{" ... "}" of the text; a text without such a pair is left as is.
cleanJsonString(text) ==
    LET open == IndexOf(text, "{", 1)
        close == LastIndexOf(text, "}", Len(text))
    IN  IF open > 0 /\ close > open THEN SubSeq(text, open, close) ELSE text

\* ------------------------------------------------------------------- state
VARIABLES
    stored,          \* the configuration in storage, NoConfig when there is none
    op,              \* the facade operation called: "none", "plan" or "image"
    onChunk,         \* TRUE when the caller passed a progress callback
    apiConfig,       \* the snapshot getApiConfig() returned to the call
    pc,              \* where the call is: idle, fetch, errbody, reading, jsonbody, done, failed
    timer,           \* the timeout timer of the call: none, armed, cleared, fired
    aborted,         \* controller.signal.aborted
    requests,        \* the network requests issued so far
    status,          \* the response: "none", "ok" (2xx) or "bad"
    wire,            \* what the upstream has sent so far of a planning response body
    arrived,         \* how many units of wire have reached the response stream
    closed,          \* the upstream has ended the response stream
    pos,             \* how many units the reader has handed out
    buffer,          \* carry-over of the reassembly loop
    fullText,        \* accumulated text of a direct planning call
    calls,           \* the arguments onChunk was invoked with, in order
    normalizerInput, \* <<text>> once text has been handed to cleanJsonString
    result,          \* the planning result of the call
    image,           \* the image string returned by generateSlideImage
    error,           \* the error the call failed with
    respBody,        \* what the call got of the response body: [read, text, json]
    inflight,        \* concurrent planning calls: their records, accumulators and controllers
    callbackThrows,  \* TRUE when the caller's progress callback throws when invoked
    upstreamLines,   \* the kind of lines upstreams send: "records" or "framing"
    route,           \* one invocation of the server-side action route
    modal            \* the API configuration form and what it has stored

vars == <<stored, op, onChunk, apiConfig, pc, timer, aborted, requests, status,
          wire, arrived, closed, pos, buffer, fullText, calls, normalizerInput,
          result, image, error, respBody, inflight, callbackThrows, upstreamLines,
          route, modal>>

\* ------------------------------------------------------- concurrent calls
NumCalls == 2

CallIds == 1..NumCalls

\* The locals of one planning call that are not its accumulator or controller.
IdleCall ==
    [pc |-> "idle", apiConfig |-> NoConfig, status |-> "none", wire |-> <<>>, pos |-> 0,
     calls |-> <<>>, result |-> NoPlan, error |-> NoError]

\* let fullText = "", let buffer = "", let result = null
EmptyAccumulator == [buffer |-> <<>>, fullText |-> <<>>, result |-> NoPlan]

\* The controller and timer of a call that has not created them.
NoController == [timer |-> "none", aborted |-> FALSE]

NoCalls ==
    [call |-> [c \in CallIds |-> IdleCall],
     accumulator |-> [c \in CallIds |-> EmptyAccumulator],
     controller |-> [c \in CallIds |-> NoController]]

\* One accumulator for all calls, as a module-level variable would be.
AccumulatorShared(c) == 1

\* The accumulator a call reads and writes: its own locals.
AccumulatorOf(c) == c

\* The controller and timer a call creates and passes to fetch: its own.
ControllerOf(c) == c

\* getApiConfig (lib/config): the stored configuration, or null.
getApiConfig == stored

\* Without the null test: every snapshot counts as a configuration.
ConfiguredAlways(cfg) == TRUE

\* if (!apiConfig) throw
Configured(cfg) == cfg # NoConfig

\* The path a call takes: requestMode first, then protocol.
PathOf(cfg) ==
    IF cfg.requestMode = CLIENT_DIRECT
    THEN (IF cfg.protocol = OPENAI THEN "openai" ELSE "vertex")
    ELSE "proxy"

\* The path taken from the stored configuration, read again at each step.
PathReadAgain == PathOf(getApiConfig)

\* The inner functions receive the snapshot as their apiConfig parameter.
Path == PathOf(apiConfig)

Direct == Path \in {"openai", "vertex"}

Settled == pc \in {"done", "failed"}

\* ------------------------------------------------------- stream reassembly
\* The state a reassembly loop carries from line to line; threw is the
\* exception that left the loop, NoError while it runs.
LoopState(ft, cs, res, thr) == [fullText |-> ft, calls |-> cs, result |-> res, threw |-> thr]

\* The delta put in front of what has been accumulated.
DeliverInFront(st, delta, cb) ==
    [st EXCEPT !.fullText = delta \o st.fullText,
               !.calls = IF cb THEN <<delta>> \o st.calls ELSE st.calls]

\* The callback handed the accumulated text.
DeliverAccumulated(st, delta, cb) ==
    [st EXCEPT !.fullText = st.fullText \o delta,
               !.calls = IF cb THEN Append(st.calls, st.fullText \o delta) ELSE st.calls]

\* fullText += delta; if (onChunk) onChunk(delta).  Both statements stand in
\* the try block of the direct loops: what onChunk throws is caught by the
\* catch {} that follows, after fullText has been extended.
Deliver(st, delta, cb) ==
    [st EXCEPT !.fullText = st.fullText \o delta,
               !.calls = IF cb THEN Append(st.calls, delta) ELSE st.calls]

\* [DONE] test of the OpenAI loop
IsDone(data) == data = <<"[DONE]">>

\* The OpenAI loop body without its try/catch: a parse error leaves the loop.
ProcessLineOpenAIUncaught(line, st, cb) ==
    IF ~StartsWith(line, DataPrefix) THEN st
    ELSE LET data == Slice(line, Len(DataPrefix))
         IN  IF IsDone(data) THEN st
             ELSE LET parsed == JSONparse(data)
                  IN  IF ~parsed.ok THEN [st EXCEPT !.threw = SyntaxError(parsed.err)]
                      ELSE IF parsed.val.content # <<>>
                      THEN Deliver(st, parsed.val.content, cb)
                      ELSE st

\* The OpenAI loop body taking the sentinel for text of the model.
ProcessLineOpenAIDoneAsData(line, st, cb) ==
    IF ~StartsWith(line, DataPrefix) THEN st
    ELSE LET data == Slice(line, Len(DataPrefix))
             parsed == JSONparse(data)
         IN  IF IsDone(data) THEN Deliver(st, data, cb)
             ELSE IF parsed.ok /\ parsed.val.content # <<>>
             THEN Deliver(st, parsed.val.content, cb)
             ELSE st

\* The OpenAI loop body without the test of the content: an empty or absent
\* content is accumulated and forwarded like any other.
ProcessLineOpenAINoContentTest(line, st, cb) ==
    IF ~StartsWith(line, DataPrefix) THEN st
    ELSE LET data == Slice(line, Len(DataPrefix))
         IN  IF IsDone(data) THEN st
             ELSE LET parsed == JSONparse(data)
                  IN  IF parsed.ok THEN Deliver(st, parsed.val.content, cb) ELSE st

\* The OpenAI loop body that takes every line beginning with "data:" for a
\* data line, with or without the space.
ProcessLineOpenAIDataColon(line, st, cb) ==
    IF ~StartsWith(line, <<"data:">>) THEN st
    ELSE LET data == IF StartsWith(line, DataPrefix) THEN Slice(line, 2) ELSE Slice(line, 1)
         IN  IF IsDone(data) THEN st
             ELSE LET parsed == JSONparse(data)
                  IN  IF parsed.ok /\ parsed.val.content # <<>>
                      THEN Deliver(st, parsed.val.content, cb)
                      ELSE st

\* Body of the OpenAI loop for one line (api.ts 311-325)
ProcessLineOpenAI(line, st, cb) ==
    IF ~StartsWith(line, DataPrefix) THEN st
    ELSE LET data == Slice(line, Len(DataPrefix))
         IN  IF IsDone(data) THEN st
             ELSE LET parsed == JSONparse(data)
                  IN  IF parsed.ok /\ parsed.val.content # <<>>
                      THEN Deliver(st, parsed.val.content, cb)
                      ELSE st

\* The Vertex loop body without the test of the text: whatever stands at
\* the delta path, nothing included, is accumulated and forwarded.
ProcessLineVertexNoTextTest(line, st, cb) ==
    IF ~StartsWith(line, DataPrefix) THEN st
    ELSE LET data == Slice(line, Len(DataPrefix))
             parsed == JSONparse(data)
         IN  IF parsed.ok THEN Deliver(st, parsed.val.text, cb) ELSE st

\* Body of the Vertex loop for one line (api.ts 369-382)
ProcessLineVertex(line, st, cb) ==
    IF ~StartsWith(line, DataPrefix) THEN st
    ELSE LET data == Slice(line, Len(DataPrefix))
             parsed == JSONparse(data)
         IN  IF parsed.ok /\ parsed.val.text # <<>>
             THEN Deliver(st, parsed.val.text, cb)
             ELSE st

\* catch (e) of the proxy loop: every error but the one with this message
\* is thrown again.
Rethrown(e) == e.message # <<UnexpectedEnd>>

\* A proxy loop that keeps the first result it has seen.
ProcessLineProxyFirstResult(line, st, cb) ==
    IF ~StartsWith(line, DataPrefix) THEN st
    ELSE LET data == Slice(line, Len(DataPrefix))
             parsed == JSONparse(data)
             thrown == IF ~parsed.ok THEN SyntaxError(parsed.err)
                       ELSE IF parsed.val.error # "" THEN Error(<<parsed.val.error>>)
                       ELSE IF parsed.val.chunk # <<>> /\ cb /\ callbackThrows THEN CallbackError
                       ELSE NoError
             forwarded == IF parsed.val.chunk # <<>> /\ cb
                          THEN [st EXCEPT !.calls = Append(st.calls, parsed.val.chunk)]
                          ELSE st
             reached == IF thrown = CallbackError THEN forwarded ELSE st
         IN  IF thrown # NoError
             THEN (IF Rethrown(thrown) THEN [reached EXCEPT !.threw = thrown] ELSE reached)
             ELSE IF parsed.val.done /\ parsed.val.result.present /\ ~st.result.present
                  THEN [forwarded EXCEPT !.result = parsed.val.result]
                  ELSE forwarded

\* Body of the proxy loop for one line (api.ts 498-522)
ProcessLineProxy(line, st, cb) ==
    IF ~StartsWith(line, DataPrefix) THEN st
    ELSE LET data == Slice(line, Len(DataPrefix))
             parsed == JSONparse(data)
             thrown == IF ~parsed.ok THEN SyntaxError(parsed.err)
                       ELSE IF parsed.val.error # "" THEN Error(<<parsed.val.error>>)
                       ELSE IF parsed.val.chunk # <<>> /\ cb /\ callbackThrows THEN CallbackError
                       ELSE NoError
             forwarded == IF parsed.val.chunk # <<>> /\ cb
                          THEN [st EXCEPT !.calls = Append(st.calls, parsed.val.chunk)]
                          ELSE st
             reached == IF thrown = CallbackError THEN forwarded ELSE st
         IN  IF thrown # NoError
             THEN (IF Rethrown(thrown) THEN [reached EXCEPT !.threw = thrown] ELSE reached)
             ELSE IF parsed.val.done /\ parsed.val.result.present
                  THEN [forwarded EXCEPT !.result = parsed.val.result]
                  ELSE forwarded

\* The dispatch that parses each protocol's stream with the other's loop.
ProcessLineCrossed(path, line, st, cb) ==
    CASE path = "openai" -> ProcessLineVertex(line, st, cb)
      [] path = "vertex" -> ProcessLineOpenAI(line, st, cb)
      [] OTHER -> ProcessLineProxy(line, st, cb)

ProcessLine(path, line, st, cb) ==
    CASE path = "openai" -> ProcessLineOpenAI(line, st, cb)
      [] path = "vertex" -> ProcessLineVertex(line, st, cb)
      [] OTHER -> ProcessLineProxy(line, st, cb)

\* for (const line of lines): in order, until a line throws
RECURSIVE ForEachLine(_, _, _, _)
ForEachLine(path, lines, st, cb) ==
    IF lines = <<>> \/ st.threw # NoError THEN st
    ELSE ForEachLine(path, Tail(lines), ProcessLine(path, Head(lines), st, cb), cb)

\* ------------------------------------------------------ upstream behaviour
Line(tok) == DataPrefix \o <<tok, NL>>

BlankLine == <<NL>>

\* Lines that do not begin with "data: ": "data:" without the space, another
\* field, a comment, a payload on its own.
NoSpaceLine(tok) == <<"data:", tok, NL>>
FieldLine(name, tok) == <<name, " ", tok, NL>>
CommentLine(tok) == <<":", tok, NL>>

\* The lines of an upstream that interleaves records with such lines, each
\* carrying a payload that would count if the line were interpreted.
FramingLinesOf(path) ==
    CASE path = "openai" ->
            {Line("oA"), NoSpaceLine("oB"), FieldLine("event:", "oB"), CommentLine("oB"),
             BlankLine}
      [] path = "vertex" ->
            {Line("vA"), NoSpaceLine("vB"), FieldLine("event:", "vB"), CommentLine("junk"),
             BlankLine}
      [] OTHER ->
            {Line("pA"), Line("pDone1"), Line("pErr"), NoSpaceLine("pErr"),
             FieldLine("event:", "pDone2"), CommentLine("junk"), BlankLine}

\* The lines an upstream of each kind sends in a planning response.
LinesOf(path) ==
    IF upstreamLines = "framing" THEN FramingLinesOf(path) ELSE
    CASE path = "openai" ->
            {Line("oA"), Line("oB"), Line("oNone"), Line("junk"), Line("[DONE]"), BlankLine}
      [] path = "vertex" ->
            {Line("vA"), Line("vB"), Line("vC"), Line("vNone"), Line("junk"), BlankLine}
      [] OTHER ->
            {Line("pA"), Line("pErr"), Line("pErrEnd"), Line("pDone1"), Line("pDone2"), Line("junk"),
             Line("trunc")}

SeqsUpTo(S, n) == UNION {[1..k -> S] : k \in 0..n}

\* A response body is up to MaxLines lines, the last one possibly cut before
\* its newline; the upstream sends it piece by piece.  Extensions: what the
\* upstream can send next after sent, any piece of a continuation that keeps
\* the body within MaxLines lines.
Extensions(path, sent) ==
    LET cur == Last(Split(sent))
        k == Len(Split(sent)) - 1
        tails == {Flatten(q) : q \in SeqsUpTo(LinesOf(path), MaxLines - k)}
        fits == {t \in tails : Len(t) > Len(cur) /\ StartsWith(t, cur)}
    IN  UNION {{SubSeq(t, Len(cur) + 1, m) : m \in (Len(cur) + 1)..Len(t)} : t \in fits}

\* The body can end after sent: at the end of a line, or just before the
\* newline of its last line.
Closable(path, sent) ==
    LET cur == Last(Split(sent))
    IN  cur = <<>> \/ (cur \o <<NL>>) \in LinesOf(path)

\* Bodies of a non-2xx response: JSON with error.message, JSON without it,
\* JSON of the proxy ({error: "E"}), text that is not JSON, nothing.
ErrorBodies == {<<"eMsg">>, <<"eNoMsg">>, <<"pErr">>, <<"junk">>, <<>>}

\* Bodies of a 2xx image response, reduced to what the layer reads.
ImageEntry(hasUrl) == [hasImageUrl |-> hasUrl, url |-> IF hasUrl THEN "U" ELSE ""]
Part(data, mime) == [data |-> data, mimeType |-> mime]

ImageBody(valid, images, parts, imageData) ==
    [valid |-> valid, images |-> images, parts |-> parts, imageData |-> imageData,
     data |-> <<>>, isNull |-> FALSE]

\* The same body with a top-level data array, the answer format of the
\* /images/generations convention.
WithData(body, data) == [body EXCEPT !.data = data]

DataEntry(b64) == [b64_json |-> b64]

ImageBodies(path) ==
    CASE path = "openai" ->
            {ImageBody(TRUE, <<>>, <<>>, ""),
             ImageBody(TRUE, <<ImageEntry(TRUE)>>, <<>>, ""),
             ImageBody(TRUE, <<ImageEntry(FALSE)>>, <<>>, ""),
             WithData(ImageBody(TRUE, <<>>, <<>>, ""), <<DataEntry("b64")>>),
             WithData(ImageBody(TRUE, <<ImageEntry(TRUE)>>, <<>>, ""), <<DataEntry("b64")>>),
             ImageBody(FALSE, <<>>, <<>>, "")}
      [] path = "vertex" ->
            {ImageBody(TRUE, <<>>, <<>>, ""),
             ImageBody(TRUE, <<>>, <<Part("", ""), Part("b64", "image/jpeg")>>, ""),
             ImageBody(TRUE, <<>>, <<Part("b64", "")>>, ""),
             ImageBody(TRUE, <<>>, <<Part("b64", ""), Part("c64", "image/jpeg")>>, ""),
             ImageBody(TRUE, <<>>, <<Part("", "image/jpeg")>>, ""),
             ImageBody(FALSE, <<>>, <<>>, "")}
      [] OTHER ->
            {ImageBody(TRUE, <<>>, <<>>, "D"),
             ImageBody(TRUE, <<>>, <<>>, ""),
             ImageBody(FALSE, <<>>, <<>>, "")}

\* What the call has got of the response body: nothing yet, the text of an
\* error body, the JSON of an image response, a failed read, the stream of a
\* planning response, or the absence of one.
NoBody == [read |-> "none", text |-> <<>>, json |-> ImageBody(FALSE, <<>>, <<>>, "")]

\* ------------------------------------------------------------ request layer
\* `Request timeout after ${timeoutMs / 1000} seconds`
TimeoutMessage(timeoutMs) ==
    <<"Request timeout after ", ToString(timeoutMs \div 1000), " seconds">>

AbortError == [name |-> "AbortError", message |-> <<"The operation was aborted">>]

\* The catch without the AbortError test: the error is thrown again as it is.
CatchRequestErrorPlain(e, timeoutMs) == e

\* catch (error) of the four request functions
CatchRequestError(e, timeoutMs) ==
    IF e.name = "AbortError" THEN Error(TimeoutMessage(timeoutMs)) ELSE e

\* A header is a name and the units of its value; "apiKey" stands for
\* config.apiKey.
Header(name, value) == [name |-> name, value |-> value]

\* A request that carried both authentication headers.
HeadersOfBoth(auth) ==
    {Header("Content-Type", <<"application/json">>)} \cup
    (IF auth = "none" THEN {}
     ELSE {Header("Authorization", <<"Bearer ", "apiKey">>),
           Header("X-Goog-Api-Key", <<"apiKey">>)})

\* The headers object passed to fetch: Content-Type always, and the one
\* authentication header of the request function (none towards the proxy).
HeadersOf(auth) ==
    {Header("Content-Type", <<"application/json">>)} \cup
    (CASE auth = "Authorization: Bearer" ->
              {Header("Authorization", <<"Bearer ", "apiKey">>)}
       [] auth = "X-Goog-Api-Key" -> {Header("X-Goog-Api-Key", <<"apiKey">>)}
       [] OTHER -> {})

\* What the model keeps of JSON.stringify(requestBody): the model field, the
\* stream flag and the requested output modalities.
Body(model, stream, modalities) ==
    [model |-> model, stream |-> stream, modalities |-> modalities]

\* The proxy routes get the prompt inputs and the configuration instead.
ProxyBody == Body("", FALSE, <<>>)

Request(url, auth, body, signal) ==
    [url |-> url, auth |-> auth, headers |-> HeadersOf(auth), body |-> body,
     signal |-> signal]

\* The request a call issues for operation o on a path.
RequestOf(o, path) ==
    CASE o = "plan" /\ path = "openai" ->
            Request(<<"apiBase", "/chat/completions">>, "Authorization: Bearer",
                    Body("contentModelId", TRUE, <<>>), TRUE)
      [] o = "plan" /\ path = "vertex" ->
            Request(<<"apiBase", "/models/", "contentModelId", ":streamGenerateContent?alt=sse">>,
                    "X-Goog-Api-Key", Body("", FALSE, <<>>), TRUE)
      [] o = "image" /\ path = "openai" ->
            Request(<<"apiBase", "/chat/completions">>, "Authorization: Bearer",
                    Body("imageModelId", FALSE, <<"image", "text">>), TRUE)
      [] o = "image" /\ path = "vertex" ->
            Request(<<"apiBase", "/models/", "imageModelId", ":generateContent">>,
                    "X-Goog-Api-Key", Body("", FALSE, <<"IMAGE", "TEXT">>), TRUE)
      [] o = "plan" -> Request(<<"/api/plan">>, "none", ProxyBody, FALSE)
      [] OTHER -> Request(<<"/api/gen">>, "none", ProxyBody, FALSE)

\* setTimeout(() => controller.abort(), timeoutMs): only the direct request
\* functions create a controller and arm a timer.
ArmsTimer(path) == path \in {"openai", "vertex"}

\* Request functions that leave the timer alone when fetch resolves.
TimerAfterResponseKept(o, path, ok, t) == t

\* The streaming request functions clear the timer as soon as fetch resolves
\* (api.ts 71, 132); the image ones in finally, which runs when the function
\* returns response.json() or throws.
TimerAfterResponse(o, path, ok, t) ==
    IF ~ArmsTimer(path) THEN t
    ELSE IF o = "plan" THEN "cleared"
    ELSE IF ok THEN "cleared" ELSE t

\* The error message that ignores the body: always the status text.
ErrorMessageOfStatusOnly(o, path, body) ==
    IF path = "proxy" THEN <<StatusText>> ELSE <<"API error: ", StatusText>>

\* The error message with the proxy's error body read like an upstream's:
\* error.message instead of error.
ErrorMessageOfNested(o, path, body) ==
    LET parsed == JSONparse(body)
    IN  IF path = "proxy"
        THEN (IF parsed.ok /\ parsed.val.errorMessage # "" THEN <<parsed.val.errorMessage>>
              ELSE <<StatusText>>)
        ELSE IF o = "plan"
        THEN <<"API error: ">> \o
             (IF parsed.ok
              THEN (IF parsed.val.errorMessage # "" THEN <<parsed.val.errorMessage>> ELSE <<StatusText>>)
              ELSE (IF body # <<>> THEN body ELSE <<StatusText>>))
        ELSE <<"API error: ">> \o
             (IF parsed.ok /\ parsed.val.errorMessage # "" THEN <<parsed.val.errorMessage>>
              ELSE <<StatusText>>)

\* errorMessage of a non-2xx response
ErrorMessageOf(o, path, body) ==
    LET parsed == JSONparse(body)
    IN  IF path = "proxy"
        THEN (IF parsed.ok /\ parsed.val.error # "" THEN <<parsed.val.error>> ELSE <<StatusText>>)
        ELSE IF o = "plan"
        THEN <<"API error: ">> \o
             (IF parsed.ok
              THEN (IF parsed.val.errorMessage # "" THEN <<parsed.val.errorMessage>> ELSE <<StatusText>>)
              ELSE (IF body # <<>> THEN body ELSE <<StatusText>>))
        ELSE <<"API error: ">> \o
             (IF parsed.ok /\ parsed.val.errorMessage # "" THEN <<parsed.val.errorMessage>>
              ELSE <<StatusText>>)

\* ---------------------------------------------------------- image results
Undefined == <<"undefined">>

\* The extraction that looks at the first part only.
extractImageFirstPartOnly(parts) ==
    IF parts = <<>> \/ Head(parts).data = "" THEN <<>>
    ELSE <<"data:", IF Head(parts).mimeType # "" THEN Head(parts).mimeType ELSE "image/png",
           ";base64,", Head(parts).data>>

RECURSIVE extractImage(_)
extractImage(parts) ==
    IF parts = <<>> THEN <<>>
    ELSE IF Head(parts).data # ""
         THEN <<"data:", IF Head(parts).mimeType # "" THEN Head(parts).mimeType ELSE "image/png",
                ";base64,", Head(parts).data>>
         ELSE extractImage(Tail(parts))

\* An OpenAI branch that fell back on data[0].b64_json when the message
\* carries no images.
ImageOutcomeWithDataFallback(path, body) ==
    CASE path = "openai" ->
            IF body.images = <<>>
            THEN (IF body.data # <<>> /\ body.data[1].b64_json # ""
                  THEN [image |-> <<"data:image/png;base64,", body.data[1].b64_json>>,
                        threw |-> NoError]
                  ELSE [image |-> <<>>, threw |-> Error(<<"No image generated">>)])
            ELSE IF ~body.images[1].hasImageUrl
                 THEN [image |-> <<>>, threw |-> TypeError("Cannot read properties of undefined")]
                 ELSE [image |-> <<body.images[1].url>>, threw |-> NoError]
      [] path = "vertex" ->
            IF extractImage(body.parts) = <<>>
            THEN [image |-> <<>>, threw |-> Error(<<"No image generated">>)]
            ELSE [image |-> extractImage(body.parts), threw |-> NoError]
      [] OTHER ->
            [image |-> IF body.imageData = "" THEN Undefined ELSE <<body.imageData>>,
             threw |-> NoError]

\* What generateSlideImage makes of a parsed 2xx body: [image, threw]
ImageOutcome(path, body) ==
    CASE path = "openai" ->
            IF body.images = <<>> THEN [image |-> <<>>, threw |-> Error(<<"No image generated">>)]
            ELSE IF ~body.images[1].hasImageUrl
                 THEN [image |-> <<>>, threw |-> TypeError("Cannot read properties of undefined")]
                 ELSE [image |-> <<body.images[1].url>>, threw |-> NoError]
      [] path = "vertex" ->
            IF extractImage(body.parts) = <<>>
            THEN [image |-> <<>>, threw |-> Error(<<"No image generated">>)]
            ELSE [image |-> extractImage(body.parts), threw |-> NoError]
      [] OTHER ->
            [image |-> IF body.imageData = "" THEN Undefined ELSE <<body.imageData>>,
             threw |-> NoError]

\* ------------------------------------------------- the action route: data
\* The body of a request to the route: json is FALSE for a body that
\* request.json() cannot parse; action is "" when missing; payload tells
\* whether there is one; prompt is "" when missing, "json" for the JSON text
\* the handlers expect, "partial" for JSON without those fields, "text" for
\* text that is not JSON.
RouteBody(json, action, payload, document, prompt) ==
    [json |-> json, action |-> action, payload |-> payload, document |-> document,
     prompt |-> prompt]

RouteActions == {"plan-presentation", "generate-image", "optimize-content"}

RouteBodies ==
    {RouteBody(FALSE, "", FALSE, FALSE, "")}
    \cup {RouteBody(TRUE, a, FALSE, FALSE, "") : a \in RouteActions \cup {"", "other"}}
    \cup {RouteBody(TRUE, a, TRUE, doc, p) :
              a \in RouteActions \cup {"", "other"}, doc \in BOOLEAN,
              p \in {"", "json", "partial", "text"}}

\* NextResponse.json({success, error | data: {content}}, {status})
Answer(code, err, content) == [status |-> code, error |-> err, content |-> content]

NoAnswer == Answer(0, <<>>, <<>>)

\* `${GEMINI_API_BASE}/models/${model}:<method>?key=${apiKey}`
UpstreamRequest(model, method, apiKey) ==
    [url |-> <<"GEMINI_API_BASE", "/models/", model, method, "?key=", apiKey>>]

\* The answer of the Imagen endpoint as the handler reads it.
Prediction(bytes) == [bytesBase64Encoded |-> bytes]

ImagenBody(valid, predictions) == [valid |-> valid, predictions |-> predictions]

ImagenBodies ==
    {ImagenBody(TRUE, <<>>), ImagenBody(TRUE, <<Prediction("")>>),
     ImagenBody(TRUE, <<Prediction("b64")>>),
     ImagenBody(TRUE, <<Prediction(""), Prediction("b64")>>),
     ImagenBody(FALSE, <<>>)}

NoImagen == [status |-> "none", body |-> ImagenBody(FALSE, <<>>)]

\* The answer of :generateContent as callGeminiAPI and the extractors read
\* it: the text of the first part and the parts' inline data.
GeminiBody(valid, text, parts) == [valid |-> valid, text |-> text, parts |-> parts]

GeminiBodies ==
    {GeminiBody(TRUE, <<>>, <<>>), GeminiBody(TRUE, <<"T">>, <<>>),
     GeminiBody(TRUE, <<>>, <<Part("", ""), Part("b64", "image/jpeg")>>),
     GeminiBody(TRUE, <<"T">>, <<Part("b64", "")>>),
     GeminiBody(FALSE, <<>>, <<>>)}

IdleRoute ==
    [pc |-> "idle", headerKey |-> "", envKey |-> "", apiKey |-> "",
     body |-> RouteBody(FALSE, "", FALSE, FALSE, ""), upstream |-> <<>>,
     imagen |-> NoImagen, answer |-> NoAnswer]

\* ------------------------------------------- the API configuration form
\* A field of the form is the text typed into it, unit by unit.
FieldNames == {"apiKey", "apiBase", "contentModelId", "imageModelId"}

FieldValues == {<<>>, <<" ">>, <<" ", "k", " ">>}

FormConfig(protocol, apiKey, apiBase, contentModelId, imageModelId) ==
    [protocol |-> protocol, apiKey |-> apiKey, apiBase |-> apiBase,
     contentModelId |-> contentModelId, imageModelId |-> imageModelId]

\* useState<ApiConfig>({protocol: VERTEX_AI, apiKey: '', ...})
EmptyForm == FormConfig(VERTEX_AI, <<>>, <<>>, <<>>, <<>>)

\* Nothing under the configuration key of localStorage.
NoStored == FormConfig("none", <<>>, <<>>, <<>>, <<>>)

\* What the last handleSubmit did: whether saveApiConfig was called and
\* returned ("ok") or threw, and whether onKeyConfigured was called; turn
\* changes with every submit.
NoSubmit == [turn |-> FALSE, save |-> "none", notified |-> FALSE]

\* The modal once mounted over an empty storage.
MountedModal ==
    [config |-> EmptyForm, error |-> "", submitting |-> FALSE, storage |-> NoStored,
     submit |-> NoSubmit]

\* A trim that leaves the text as it is.
trimNothing(s) == s

\* String.prototype.trim
RECURSIVE trim(_)
trim(s) ==
    IF s = <<>> THEN s
    ELSE IF Head(s) = " " THEN trim(Tail(s))
    ELSE IF s[Len(s)] = " " THEN trim(SubSeq(s, 1, Len(s) - 1))
    ELSE s

\* handleSubmit from its first statement to the end of its finally;
\* saveThrows and notifyThrows tell whether saveApiConfig and
\* onKeyConfigured throw when called.  saveApiConfig (lib/config) either
\* stores the object it is given or throws and leaves the storage alone.
handleSubmit(m, saveThrows, notifyThrows) ==
    LET c == m.config
        tried == [turn |-> ~m.submit.turn, save |-> "none", notified |-> FALSE]
        invalid(msg) == [m EXCEPT !.error = msg, !.submit = tried]
        trimmed == FormConfig(c.protocol, trim(c.apiKey), trim(c.apiBase),
                              trim(c.contentModelId), trim(c.imageModelId))
    IN  IF trim(c.apiKey) = <<>> THEN invalid("errorApiKeyRequired")
        ELSE IF trim(c.apiBase) = <<>> THEN invalid("errorApiBaseRequired")
        ELSE IF trim(c.contentModelId) = <<>> THEN invalid("errorContentModelRequired")
        ELSE IF trim(c.imageModelId) = <<>> THEN invalid("errorImageModelRequired")
        ELSE IF saveThrows
        THEN [m EXCEPT !.error = "errorFailed", !.submitting = FALSE,
                       !.submit = [tried EXCEPT !.save = "threw"]]
        ELSE [m EXCEPT !.error = IF notifyThrows THEN "errorFailed" ELSE "",
                       !.submitting = FALSE,
                       !.storage = trimmed,
                       !.submit = [tried EXCEPT !.save = "ok", !.notified = TRUE]]

\* --------------------------------------------------------------- the call
InitCall ==
    /\ stored \in ApiConfigs \cup {NoConfig}
    /\ op = "none"
    /\ onChunk = FALSE
    /\ apiConfig = NoConfig
    /\ pc = "idle"
    /\ timer = "none"
    /\ aborted = FALSE
    /\ requests = <<>>
    /\ status = "none"
    /\ wire = <<>>
    /\ arrived = 0
    /\ closed = FALSE
    /\ pos = 0
    /\ buffer = <<>>
    /\ fullText = <<>>
    /\ calls = <<>>
    /\ normalizerInput = <<>>
    /\ result = NoPlan
    /\ image = <<>>
    /\ error = NoError
    /\ respBody = NoBody
    /\ inflight = NoCalls
    /\ route = IdleRoute
    /\ modal = MountedModal

\* The caller's progress callback returns normally.
Init == InitCall /\ callbackThrows = FALSE /\ upstreamLines = "records"

\* The upstreams interleave their records with other server-sent-event
\* lines.
InitFraming == InitCall /\ callbackThrows = FALSE /\ upstreamLines = "framing"

\* The caller's progress callback throws whenever it is invoked.
InitThrowingCallback == InitCall /\ callbackThrows = TRUE /\ upstreamLines = "records"

Fail(e) ==
    /\ pc' = "failed"
    /\ error' = e

\* A request function that falls back to the proxy endpoint as well.
FetchWithFallback(reqs, o, path) ==
    Append(Append(reqs, RequestOf(o, path)), RequestOf(o, "proxy"))

\* await fetch(url, init): the one request of the request function the call
\* goes through.
Fetch(reqs, o, path) == Append(reqs, RequestOf(o, path))

\* Entry of both facade operations (api.ts 571-598, 603-628) up to the point
\* where the request function awaits fetch.
Call(o, cb) ==
    /\ pc = "idle"
    /\ op' = o
    /\ onChunk' = cb
    /\ apiConfig' = getApiConfig
    /\ IF ~Configured(getApiConfig)
       THEN /\ Fail(Error(<<"API not configured">>))
            /\ UNCHANGED <<timer, requests>>
       ELSE /\ pc' = "fetch"
            /\ error' = error
            /\ timer' = IF ArmsTimer(PathOf(getApiConfig)) THEN "armed" ELSE timer
            /\ requests' = Fetch(requests, o, PathOf(getApiConfig))
    /\ UNCHANGED <<stored, callbackThrows, upstreamLines, route, modal, inflight, respBody, aborted, status, wire, arrived, closed, pos, buffer,
                   fullText, calls, normalizerInput, result, image>>

planPresentation == \E cb \in BOOLEAN : Call("plan", cb)

generateSlideImage == Call("image", FALSE)

\* The timer callback: controller.abort()
TimerFire ==
    /\ timer = "armed"
    /\ timer' = "fired"
    /\ aborted' = TRUE
    /\ UNCHANGED <<stored, callbackThrows, upstreamLines, route, modal, inflight, respBody, op, onChunk, apiConfig, pc, requests, status, wire, arrived,
                   closed, pos, buffer, fullText, calls, normalizerInput, result, image, error>>

\* A planning function that takes every response to have a reader.
NoReaderNever(hasBody) == FALSE

\* const reader = response.body?.getReader(); if (!reader) throw
NoReader(hasBody) == ~hasBody

\* fetch resolves with a response; a 2xx planning response may lack a body.
FetchResolve ==
    /\ pc = "fetch"
    /\ ~aborted
    /\ \E ok \in BOOLEAN, hasBody \in BOOLEAN :
        /\ status' = IF ok THEN "ok" ELSE "bad"
        /\ timer' = TimerAfterResponse(op, Path, ok, timer)
        /\ IF ~ok
           THEN /\ hasBody
                /\ pc' = "errbody"
                /\ UNCHANGED <<wire, error, respBody>>
           ELSE IF op = "image"
           THEN /\ hasBody
                /\ pc' = "jsonbody"
                /\ UNCHANGED <<wire, error, respBody>>
           ELSE /\ respBody' = [NoBody EXCEPT !.read = IF hasBody THEN "stream" ELSE "absent"]
                /\ IF NoReader(hasBody)
                   THEN /\ Fail(Error(<<"No response body">>))
                        /\ UNCHANGED wire
                   ELSE /\ pc' = "reading"
                        /\ UNCHANGED <<wire, error>>
    /\ UNCHANGED <<stored, callbackThrows, upstreamLines, route, modal, inflight, op, onChunk, apiConfig, aborted, requests, arrived, closed,
                   pos, buffer, fullText, calls, normalizerInput, result, image>>

\* fetch rejects: with AbortError once the controller has aborted, with a
\* network TypeError otherwise.  The direct request functions catch it.
FetchReject ==
    /\ pc = "fetch"
    /\ LET e == IF aborted THEN AbortError ELSE TypeError("Failed to fetch")
       IN  Fail(IF Direct THEN CatchRequestError(e, DefaultTimeoutMs) ELSE e)
    /\ timer' = IF timer = "armed" THEN "cleared" ELSE timer
    /\ UNCHANGED <<stored, callbackThrows, upstreamLines, route, modal, inflight, respBody, op, onChunk, apiConfig, aborted, requests, status, wire, arrived,
                   closed, pos, buffer, fullText, calls, normalizerInput, result, image>>

\* The body of a non-2xx response has been read (response.text() of the
\* streaming functions, response.json().catch(() => ({})) of the others) or
\* could not be read: the rejection of response.text() reaches the catch of
\* the streaming function, that of response.json() (a failed read, or an
\* abort while an image function reads) leaves errorData = {}.
ErrorBody ==
    /\ pc = "errbody"
    /\ \E body \in ErrorBodies, readable \in BOOLEAN :
        LET read == readable /\ ~aborted
        IN  /\ respBody' = [NoBody EXCEPT !.read = IF read THEN "error" ELSE "unreadable",
                                          !.text = IF read THEN body ELSE <<>>]
            /\ IF ~read /\ op = "plan" /\ Direct
               THEN Fail(CatchRequestError(TypeError("Failed to fetch"), DefaultTimeoutMs))
               ELSE Fail(Error(ErrorMessageOf(op, Path, IF read THEN body ELSE <<>>)))
    /\ timer' = IF timer = "armed" THEN "cleared" ELSE timer
    /\ UNCHANGED <<stored, callbackThrows, upstreamLines, route, modal, inflight, op, onChunk, apiConfig, aborted, requests, status, wire, arrived,
                   closed, pos, buffer, fullText, calls, normalizerInput, result, image>>

\* The JSON body of a 2xx image response has been read.
JsonBody ==
    /\ pc = "jsonbody"
    /\ \E body \in ImageBodies(Path) :
        LET out == ImageOutcome(Path, body)
        IN  /\ respBody' = [NoBody EXCEPT !.read = "image", !.json = body]
            /\ IF ~body.valid
               THEN Fail(SyntaxError(UnexpectedToken)) /\ UNCHANGED image
               ELSE IF out.threw # NoError
               THEN Fail(out.threw) /\ UNCHANGED image
               ELSE pc' = "done" /\ image' = out.image /\ UNCHANGED error
    /\ UNCHANGED <<stored, callbackThrows, upstreamLines, route, modal, inflight, op, onChunk, apiConfig, timer, aborted, requests, status, wire,
                   arrived, closed, pos, buffer, fullText, calls, normalizerInput, result>>

\* The network delivers one more piece of the body, up to and including the
\* next newline, into the response stream although the call has settled and
\* nobody reads it any more.  (While the loop runs, ReadChunk covers
\* delivery and read of a chunk in one step.)
UpstreamSend ==
    /\ status = "ok"
    /\ op = "plan"
    /\ respBody.read = "stream"
    /\ Settled
    /\ ~closed
    /\ arrived = pos
    /\ \E more \in {e \in Extensions(Path, wire) : Len(Split(e)) = 2 /\ Last(e) = NL} :
        /\ wire' = wire \o more
        /\ arrived' = Len(wire')
    /\ UNCHANGED <<stored, callbackThrows, upstreamLines, route, modal, inflight, respBody, op, onChunk, apiConfig, pc, timer, aborted, requests, status,
                   closed, pos, buffer, fullText, calls, normalizerInput, result, image, error>>

UpstreamClose ==
    /\ status = "ok"
    /\ op = "plan"
    /\ respBody.read = "stream"
    /\ ~closed
    /\ arrived = Len(wire)
    /\ Closable(Path, wire)
    /\ closed' = TRUE
    /\ UNCHANGED <<stored, callbackThrows, upstreamLines, route, modal, inflight, respBody, op, onChunk, apiConfig, pc, timer, aborted, requests, status, wire,
                   arrived, pos, buffer, fullText, calls, normalizerInput, result, image, error>>

\* A reader pump that a thrown error does not stop.
LoopRunningAfterFailure == pc \in {"reading", "failed"}

\* The reassembly loop runs only while the call awaits reader.read().
LoopRunning == pc = "reading"

\* One iteration of while (true) with done = false: the next chunk arrives,
\* any non-empty piece of what the upstream sends next, and the reader hands
\* it out together with what has arrived unread.
ReadChunk ==
    /\ LoopRunning
    /\ ~closed \/ pos < arrived
    /\ \E more \in (IF closed THEN {} ELSE Extensions(Path, wire))
                    \cup (IF pos < arrived THEN {<<>>} ELSE {}) :
        LET value == SubSeq(wire, pos + 1, arrived) \o more
            lines == Split(buffer \o value)
            st == ForEachLine(Path, Front(lines),
                              LoopState(fullText, calls, result, NoError), onChunk)
        IN  /\ wire' = wire \o more
            /\ pos' = Len(wire')
            /\ arrived' = Len(wire')
            /\ buffer' = Last(lines)
            /\ fullText' = st.fullText
            /\ calls' = st.calls
            /\ result' = st.result
            /\ IF st.threw # NoError THEN Fail(st.threw) ELSE UNCHANGED <<pc, error>>
    /\ UNCHANGED <<stored, callbackThrows, upstreamLines, route, modal, inflight, respBody, op, onChunk, apiConfig, timer, aborted, requests, status,
                   closed, normalizerInput, image>>

\* A loop that handles the carry-over as a last line when the reader is done.
AtDoneFlush(path, st, buf, cb) == ForEachLine(path, <<buf>>, st, cb)

\* if (done) break: the loop is left with the carry-over buffer unread.
AtDone(path, st, buf, cb) == st

\* The iteration with done = true and what follows the loop: the direct
\* paths clean and parse the accumulated text, the proxy path returns the
\* result it has seen.
ReadDone ==
    /\ LoopRunning
    /\ closed
    /\ pos = arrived
    /\ LET fin == AtDone(Path, LoopState(fullText, calls, result, NoError), buffer, onChunk)
       IN  /\ fullText' = fin.fullText
           /\ calls' = fin.calls
           /\ IF fin.threw # NoError
              THEN Fail(fin.threw) /\ result' = fin.result /\ UNCHANGED normalizerInput
              ELSE IF Direct
              THEN LET parsed == JSONparse(cleanJsonString(fin.fullText))
                   IN  /\ normalizerInput' = <<fin.fullText>>
                       /\ IF parsed.ok
                          THEN pc' = "done" /\ result' = parsed.val.plan /\ UNCHANGED error
                          ELSE Fail(SyntaxError(parsed.err)) /\ result' = fin.result
              ELSE /\ UNCHANGED normalizerInput
                   /\ result' = fin.result
                   /\ IF fin.result.present
                      THEN pc' = "done" /\ UNCHANGED error
                      ELSE Fail(Error(<<"No result received from stream">>))
    /\ UNCHANGED <<stored, callbackThrows, upstreamLines, route, modal, inflight, respBody, op, onChunk, apiConfig, timer, aborted, requests, status, wire,
                   arrived, closed, pos, buffer, image>>

\* The configurations the settings dialog stores in place of cfg: the other
\* protocol, with the same or with the other request mode.
OtherProtocol(p) == IF p = OPENAI THEN VERTEX_AI ELSE OPENAI
OtherMode(m) == IF m = CLIENT_DIRECT THEN SERVER_PROXY ELSE CLIENT_DIRECT

Changes(cfg) ==
    {[protocol |-> OtherProtocol(cfg.protocol), requestMode |-> OtherMode(cfg.requestMode)]}

\* saveApiConfig (lib/config), called by the settings dialog while the call
\* is in flight.
saveApiConfig ==
    /\ pc # "idle"
    /\ ~Settled
    /\ stored = apiConfig
    /\ \E cfg \in Changes(stored) : stored' = cfg
    /\ UNCHANGED <<callbackThrows, upstreamLines, route, modal, inflight, respBody, op, onChunk, apiConfig, pc, timer, aborted, requests, status, wire,
                   arrived, closed, pos, buffer, fullText, calls, normalizerInput, result,
                   image, error>>

\* The variables of the single call, which the concurrent calls leave alone.
single == <<op, onChunk, apiConfig, pc, timer, aborted, requests, status, wire, arrived, closed,
            pos, buffer, fullText, calls, normalizerInput, result, image, error, respBody>>

\* The response bodies the upstream sends to concurrent calls: two lines
\* that make a whole result, the second of them alone, and the two with the
\* last newline missing.
ConcurrentBodies(path) ==
    LET two == CASE path = "openai" -> Line("oA") \o Line("oB")
                 [] path = "vertex" -> Line("vA") \o Line("vB")
                 [] OTHER -> Line("pA") \o Line("pDone1")
    IN  {two, SubSeq(two, Len(Line("oA")) + 1, Len(two)), Front(two)}

\* Entry of planPresentation for call c, up to the await of fetch.
CallStart(c) ==
    /\ inflight.call[c].pc = "idle"
    /\ inflight' =
        IF ~Configured(getApiConfig)
        THEN [inflight EXCEPT !.call[c].pc = "failed",
                              !.call[c].error = Error(<<"API not configured">>)]
        ELSE [inflight EXCEPT
                !.call[c].pc = "fetch",
                !.call[c].apiConfig = getApiConfig,
                !.accumulator[AccumulatorOf(c)] = EmptyAccumulator,
                !.controller[ControllerOf(c)] =
                    [timer |-> IF ArmsTimer(PathOf(getApiConfig)) THEN "armed" ELSE "none",
                     aborted |-> FALSE]]
    /\ UNCHANGED <<stored, callbackThrows, upstreamLines, route, modal, single>>

\* The timer callback of call c: controller.abort()
CallTimerFire(c) ==
    LET k == ControllerOf(c)
    IN  /\ inflight.call[c].pc # "idle"
        /\ inflight.controller[k].timer = "armed"
        /\ inflight' = [inflight EXCEPT !.controller[k] = [timer |-> "fired", aborted |-> TRUE]]
        /\ UNCHANGED <<stored, callbackThrows, upstreamLines, route, modal, single>>

\* fetch of call c resolves with a 2xx response that has a body.
CallFetchResolve(c) ==
    LET k == ControllerOf(c)
        a == AccumulatorOf(c)
        path == PathOf(inflight.call[c].apiConfig)
    IN  /\ inflight.call[c].pc = "fetch"
        /\ ~inflight.controller[k].aborted
        /\ \E w \in ConcurrentBodies(path) :
            inflight' = [inflight EXCEPT
                !.call[c].pc = "reading",
                !.call[c].status = "ok",
                !.call[c].wire = w,
                !.controller[k].timer = TimerAfterResponse("plan", path, TRUE, @),
                !.accumulator[a].buffer = <<>>,
                !.accumulator[a].result = NoPlan]
        /\ UNCHANGED <<stored, callbackThrows, upstreamLines, route, modal, single>>

\* fetch of call c rejects: AbortError once its signal has aborted, a
\* network TypeError otherwise.
CallFetchReject(c) ==
    LET k == ControllerOf(c)
        path == PathOf(inflight.call[c].apiConfig)
        e == IF inflight.controller[k].aborted THEN AbortError ELSE TypeError("Failed to fetch")
    IN  /\ inflight.call[c].pc = "fetch"
        /\ inflight' = [inflight EXCEPT
                !.call[c].pc = "failed",
                !.call[c].error = IF ArmsTimer(path) THEN CatchRequestError(e, DefaultTimeoutMs)
                                  ELSE e,
                !.controller[k].timer = IF @ = "armed" THEN "cleared" ELSE @]
        /\ UNCHANGED <<stored, callbackThrows, upstreamLines, route, modal, single>>

\* One iteration of the loop of call c: a chunk of its own response.
CallReadChunk(c) ==
    LET a == AccumulatorOf(c)
        call == inflight.call[c]
        acc == inflight.accumulator[a]
    IN  /\ call.pc = "reading"
        /\ \E n \in 1..(Len(call.wire) - call.pos) :
            LET value == SubSeq(call.wire, call.pos + 1, call.pos + n)
                lines == Split(acc.buffer \o value)
                st == ForEachLine(PathOf(call.apiConfig), Front(lines),
                                  LoopState(acc.fullText, call.calls, acc.result, NoError), TRUE)
            IN  inflight' = [inflight EXCEPT
                    !.call[c].pos = call.pos + n,
                    !.call[c].calls = st.calls,
                    !.call[c].pc = IF st.threw # NoError THEN "failed" ELSE @,
                    !.call[c].error = IF st.threw # NoError THEN st.threw ELSE @,
                    !.accumulator[a] =
                        [buffer |-> Last(lines), fullText |-> st.fullText, result |-> st.result]]
        /\ UNCHANGED <<stored, callbackThrows, upstreamLines, route, modal, single>>

\* What follows the loop: the direct paths clean and parse the accumulated
\* text, the proxy path returns the result it has seen.
AfterLoop(path, acc) ==
    IF path \in {"openai", "vertex"}
    THEN LET parsed == JSONparse(cleanJsonString(acc.fullText))
         IN  IF parsed.ok THEN [pc |-> "done", result |-> parsed.val.plan, error |-> NoError]
             ELSE [pc |-> "failed", result |-> NoPlan, error |-> SyntaxError(parsed.err)]
    ELSE IF acc.result.present THEN [pc |-> "done", result |-> acc.result, error |-> NoError]
         ELSE [pc |-> "failed", result |-> NoPlan,
               error |-> Error(<<"No result received from stream">>)]

\* The read of call c that reports the end of its response.
CallReadDone(c) ==
    LET call == inflight.call[c]
        out == AfterLoop(PathOf(call.apiConfig), inflight.accumulator[AccumulatorOf(c)])
    IN  /\ call.pc = "reading"
        /\ call.pos = Len(call.wire)
        /\ inflight' = [inflight EXCEPT !.call[c].pc = out.pc,
                                         !.call[c].result = out.result,
                                         !.call[c].error = out.error]
        /\ UNCHANGED <<stored, callbackThrows, upstreamLines, route, modal, single>>

StartCall == \E c \in CallIds : CallStart(c)
FireTimer == \E c \in CallIds : CallTimerFire(c)
ResolveFetch == \E c \in CallIds : CallFetchResolve(c)
RejectFetch == \E c \in CallIds : CallFetchReject(c)
ReadChunkOf == \E c \in CallIds : CallReadChunk(c)
ReadDoneOf == \E c \in CallIds : CallReadDone(c)

NextConcurrent ==
    \/ StartCall
    \/ FireTimer
    \/ ResolveFetch
    \/ RejectFetch
    \/ ReadChunkOf
    \/ ReadDoneOf

SpecConcurrent == Init /\ [][NextConcurrent]_vars

\* ------------------------------- the /images/generations convention
\* generateSlideImageOpenAI of openai-api.ts is exported next to the facade
\* and takes its configuration as a parameter.  Its call is described by the
\* variables of the single call, with op = "images".
ImageTimeoutMs == 180000

\* The body "null": valid JSON that is no object.
JsonNull == [ImageBody(TRUE, <<>>, <<>>, "") EXCEPT !.isNull = TRUE]

\* Answers of /images/generations: a data array of up to two entries (an
\* entry without b64_json and one with an empty b64_json both have
\* b64_json = "", an absent data and an empty one both have data = <<>>),
\* the body null, and a body that is not JSON.
ImagesBodies ==
    LET entries == {DataEntry(""), DataEntry("b64"), DataEntry("c64")}
    IN  {WithData(ImageBody(TRUE, <<>>, <<>>, ""), q) : q \in SeqsUpTo(entries, 2)}
        \cup {JsonNull, ImageBody(FALSE, <<>>, <<>>, "")}

\* const url = `${config.apiBase}/images/generations` and the fetch init
ImagesRequest ==
    Request(<<"apiBase", "/images/generations">>, "Authorization: Bearer",
            Body("imageModelId", FALSE, <<>>), TRUE)

\* errorData?.error?.message || response.statusText
callOpenAIImageAPIMessage(body) ==
    LET parsed == JSONparse(body)
    IN  <<"API error: ">> \o
        (IF parsed.ok /\ parsed.val.errorMessage # "" THEN <<parsed.val.errorMessage>>
         ELSE <<StatusText>>)

\* An extraction that only tests that data has a first entry.
generateSlideImageOpenAIUntested(body) ==
    IF body.isNull
    THEN [image |-> <<>>, threw |-> TypeError("Cannot read properties of null")]
    ELSE IF body.data = <<>>
    THEN [image |-> <<>>, threw |-> Error(<<"No image generated">>)]
    ELSE [image |-> <<"data:image/png;base64,", body.data[1].b64_json>>, threw |-> NoError]

\* const imageData = response.data?.[0]?.b64_json; if (!imageData) throw ...;
\* return `data:image/png;base64,${imageData}`
generateSlideImageOpenAIOutcome(body) ==
    IF body.isNull
    THEN [image |-> <<>>, threw |-> TypeError("Cannot read properties of null")]
    ELSE IF body.data = <<>> \/ body.data[1].b64_json = ""
    THEN [image |-> <<>>, threw |-> Error(<<"No image generated">>)]
    ELSE [image |-> <<"data:image/png;base64,", body.data[1].b64_json>>, threw |-> NoError]

\* Entry of generateSlideImageOpenAI up to the await of fetch.
generateSlideImageOpenAI ==
    /\ pc = "idle"
    /\ \E config \in ApiConfigs :
        /\ op' = "images"
        /\ apiConfig' = config
    /\ pc' = "fetch"
    /\ timer' = "armed"
    /\ requests' = Append(requests, ImagesRequest)
    /\ UNCHANGED <<stored, callbackThrows, upstreamLines, route, modal, inflight, respBody, onChunk, aborted, status, wire, arrived,
                   closed, pos, buffer, fullText, calls, normalizerInput, result, image, error>>

\* fetch resolves; on 2xx the function returns response.json() and its
\* finally clears the timer before the body is read.
ImagesFetchResolve ==
    /\ op = "images"
    /\ pc = "fetch"
    /\ ~aborted
    /\ \E ok \in BOOLEAN :
        /\ status' = IF ok THEN "ok" ELSE "bad"
        /\ pc' = IF ok THEN "jsonbody" ELSE "errbody"
        /\ timer' = IF ok THEN "cleared" ELSE timer
    /\ UNCHANGED <<stored, callbackThrows, upstreamLines, route, modal, inflight, respBody, op, onChunk, apiConfig, aborted, requests, wire,
                   arrived, closed, pos, buffer, fullText, calls, normalizerInput, result, image,
                   error>>

\* fetch rejects and the catch of callOpenAIImageAPI maps an AbortError.
ImagesFetchReject ==
    /\ op = "images"
    /\ pc = "fetch"
    /\ LET e == IF aborted THEN AbortError ELSE TypeError("Failed to fetch")
       IN  Fail(CatchRequestError(e, ImageTimeoutMs))
    /\ timer' = IF timer = "armed" THEN "cleared" ELSE timer
    /\ UNCHANGED <<stored, callbackThrows, upstreamLines, route, modal, inflight, respBody, op, onChunk, apiConfig, aborted, requests, status,
                   wire, arrived, closed, pos, buffer, fullText, calls, normalizerInput, result,
                   image>>

\* await response.json().catch(() => ({})) of a non-2xx response: a body
\* that cannot be read (an abort included) leaves errorData = {}.
ImagesErrorBody ==
    /\ op = "images"
    /\ pc = "errbody"
    /\ \E body \in ErrorBodies, readable \in BOOLEAN :
        LET read == readable /\ ~aborted
        IN  /\ respBody' = [NoBody EXCEPT !.read = IF read THEN "error" ELSE "unreadable",
                                          !.text = IF read THEN body ELSE <<>>]
            /\ Fail(Error(callOpenAIImageAPIMessage(IF read THEN body ELSE <<>>)))
    /\ timer' = IF timer = "armed" THEN "cleared" ELSE timer
    /\ UNCHANGED <<stored, callbackThrows, upstreamLines, route, modal, inflight, op, onChunk, apiConfig, aborted, requests, status, wire,
                   arrived, closed, pos, buffer, fullText, calls, normalizerInput, result, image>>

\* The JSON body of a 2xx response has been read and generateSlideImageOpenAI
\* looks for the image in it.
ImagesJsonBody ==
    /\ op = "images"
    /\ pc = "jsonbody"
    /\ \E body \in ImagesBodies :
        LET out == generateSlideImageOpenAIOutcome(body)
        IN  /\ respBody' = [NoBody EXCEPT !.read = "image", !.json = body]
            /\ IF ~body.valid
               THEN Fail(SyntaxError(UnexpectedToken)) /\ UNCHANGED image
               ELSE IF out.threw # NoError
               THEN Fail(out.threw) /\ UNCHANGED image
               ELSE pc' = "done" /\ image' = out.image /\ UNCHANGED error
    /\ UNCHANGED <<stored, callbackThrows, upstreamLines, route, modal, inflight, op, onChunk, apiConfig, timer, aborted, requests, status,
                   wire, arrived, closed, pos, buffer, fullText, calls, normalizerInput, result>>

NextImagesGenerations ==
    \/ generateSlideImageOpenAI
    \/ TimerFire
    \/ ImagesFetchResolve
    \/ ImagesFetchReject
    \/ ImagesErrorBody
    \/ ImagesJsonBody

SpecImagesGenerations == Init /\ [][NextImagesGenerations]_vars

\* ---------------------------------------------- the action route: handlers
\* The variables of the facade, which the route leaves alone.
facade == <<stored, callbackThrows, upstreamLines, inflight, modal, single>>

\* A route that prefers the key of the environment.
getApiKeyEnvFirst(headerKey, envKey) == IF envKey # "" THEN envKey ELSE headerKey

\* headerKey || process.env.GEMINI_API_KEY; "" is the missing key, for which
\* getApiKey throws.
getApiKey(headerKey, envKey) == IF headerKey # "" THEN headerKey ELSE envKey

\* return NextResponse.json(...), also from the catch of POST
Respond(r, answer) == [r EXCEPT !.pc = "answered", !.answer = answer]

\* An error thrown in a handler reaches the catch of POST: 500 with its
\* message.
Throw(r, message) == Respond(r, Answer(500, message, <<>>))

BadRequest(r, message) == Respond(r, Answer(400, message, <<>>))

\* await fetch(url, ...): the request is issued and the handler waits at next.
AwaitFetch(r, req, next) == [r EXCEPT !.pc = next, !.upstream = Append(@, req)]

\* callGeminiAPI up to its fetch
callGeminiAPI(r, model) ==
    AwaitFetch(r, UpstreamRequest(model, ":generateContent", r.apiKey), "gemini")

handlePlanPresentation(r) ==
    IF ~r.body.document /\ r.body.prompt = "" THEN BadRequest(r, <<"Missing document or prompt">>)
    ELSE IF r.body.prompt = "" THEN BadRequest(r, <<"Missing prompt">>)
    ELSE IF r.body.prompt = "text" THEN Throw(r, <<UnexpectedToken>>)
    ELSE callGeminiAPI(r, "gemini-2.5-flash")

\* handleGenerateImage up to the Imagen fetch; a prompt without config
\* fails at config.style.
handleGenerateImage(r) ==
    IF r.body.prompt = "" THEN BadRequest(r, <<"Missing prompt">>)
    ELSE IF r.body.prompt = "text" THEN Throw(r, <<UnexpectedToken>>)
    ELSE IF r.body.prompt = "partial" THEN Throw(r, <<"Cannot read properties of undefined">>)
    ELSE AwaitFetch(r, UpstreamRequest("imagen-3.0-generate-002", ":predict", r.apiKey),
                    "imagen")

handleOptimizeContent(r) ==
    IF r.body.prompt = "" THEN BadRequest(r, <<"Missing prompt">>)
    ELSE callGeminiAPI(r, "gemini-2.5-flash")

\* POST up to its answer or to the first upstream fetch of a handler.
Dispatch(headerKey, envKey, body) ==
    LET r == [IdleRoute EXCEPT !.headerKey = headerKey, !.envKey = envKey, !.body = body,
                               !.apiKey = getApiKey(headerKey, envKey)]
    IN  IF r.apiKey = ""
        THEN Throw(r, <<"API key not configured. Please add GEMINI_API_KEY to .env.local">>)
        ELSE IF ~body.json THEN Throw(r, <<UnexpectedToken>>)
        ELSE IF body.action = "" \/ ~body.payload
        THEN BadRequest(r, <<"Missing action or payload">>)
        ELSE CASE body.action = "plan-presentation" -> handlePlanPresentation(r)
               [] body.action = "generate-image" -> handleGenerateImage(r)
               [] body.action = "optimize-content" -> handleOptimizeContent(r)
               [] OTHER -> BadRequest(r, <<"Unknown action: ", body.action>>)

POST ==
    /\ route.pc = "idle"
    /\ \E headerKey \in {"", "H"}, envKey \in {"", "G"}, body \in RouteBodies :
        route' = Dispatch(headerKey, envKey, body)
    /\ UNCHANGED facade

\* A handler that also falls back when the Imagen answer has no image bytes.
FallsBackWithoutBytes(ok, hasBytes) == ~ok \/ ~hasBytes

\* if (!response.ok): the Gemini fallback is taken for a non-2xx Imagen
\* response and for nothing else.
FallsBack(ok, hasBytes) == ~ok

\* result.predictions?.[0]?.bytesBase64Encoded
ImageBase64(body) ==
    IF body.predictions = <<>> THEN "" ELSE body.predictions[1].bytesBase64Encoded

\* The Imagen fetch resolves.
ImagenResponds ==
    /\ route.pc = "imagen"
    /\ \E ok \in BOOLEAN, body \in ImagenBodies :
        LET r == [route EXCEPT !.imagen = [status |-> IF ok THEN "ok" ELSE "bad", body |-> body]]
        IN  route' =
                IF FallsBack(ok, body.valid /\ ImageBase64(body) # "")
                THEN callGeminiAPI(r, "gemini-2.0-flash-exp")
                ELSE IF ~body.valid THEN Throw(r, <<UnexpectedToken>>)
                ELSE IF ImageBase64(body) # ""
                THEN Respond(r, Answer(200, <<>>, <<"data:image/png;base64,", ImageBase64(body)>>))
                ELSE Throw(r, <<"No image generated">>)
    /\ UNCHANGED facade

\* The Imagen fetch rejects: the handler's catch throws the error again.
ImagenRejects ==
    /\ route.pc = "imagen"
    /\ route' = Throw([route EXCEPT !.imagen.status = "rejected"], <<"fetch failed">>)
    /\ UNCHANGED facade

\* response.candidates?.[0]?.content?.parts?.[0]?.text
extractText(body) == body.text

\* What a handler makes of the parsed answer of callGeminiAPI.
GeminiOutcome(r, body) ==
    IF r.body.action = "generate-image"
    THEN (IF extractImage(body.parts) # <<>>
          THEN Respond(r, Answer(200, <<>>, extractImage(body.parts)))
          ELSE Throw(r, <<"No image generated">>))
    ELSE (IF extractText(body) # <<>>
          THEN Respond(r, Answer(200, <<>>, extractText(body)))
          ELSE Throw(r, <<"No text in response">>))

\* The fetch of callGeminiAPI resolves: non-2xx with or without an upstream
\* message, or 2xx with a body.
GeminiResponds ==
    /\ route.pc = "gemini"
    /\ \/ \E message \in {"", "M"} :
            route' = Throw(route, <<"Gemini API error: ",
                                    IF message # "" THEN message ELSE StatusText>>)
       \/ \E body \in GeminiBodies :
            route' = IF ~body.valid THEN Throw(route, <<UnexpectedToken>>)
                     ELSE GeminiOutcome(route, body)
    /\ UNCHANGED facade

GeminiRejects ==
    /\ route.pc = "gemini"
    /\ route' = Throw(route, <<"fetch failed">>)
    /\ UNCHANGED facade

NextActionRoute ==
    \/ POST
    \/ ImagenResponds
    \/ ImagenRejects
    \/ GeminiResponds
    \/ GeminiRejects

SpecActionRoute == Init /\ [][NextActionRoute]_vars

\* ------------------------------------------ the API configuration form: use
\* The variables outside the form.
outsideModal == <<stored, callbackThrows, upstreamLines, inflight, route, single>>

\* onChange of one of the four inputs
TypeField ==
    /\ \E f \in FieldNames, v \in FieldValues : modal' = [modal EXCEPT !.config[f] = v]
    /\ UNCHANGED outsideModal

\* onClick of one of the two protocol buttons
SelectProtocol ==
    /\ \E p \in {VERTEX_AI, OPENAI} : modal' = [modal EXCEPT !.config.protocol = p]
    /\ UNCHANGED outsideModal

\* onSubmit of the form
Submit ==
    /\ \E saveThrows \in BOOLEAN, notifyThrows \in BOOLEAN :
        modal' = handleSubmit(modal, saveThrows, notifyThrows)
    /\ UNCHANGED outsideModal

NextApiKeyModal ==
    \/ TypeField
    \/ SelectProtocol
    \/ Submit

SpecApiKeyModal == Init /\ [][NextApiKeyModal]_vars

Next ==
    \/ planPresentation
    \/ generateSlideImage
    \/ TimerFire
    \/ FetchResolve
    \/ FetchReject
    \/ ErrorBody
    \/ JsonBody
    \/ UpstreamSend
    \/ UpstreamClose
    \/ ReadChunk
    \/ ReadDone

Spec == Init /\ [][Next]_vars

SpecThrowingCallback == InitThrowingCallback /\ [][Next]_vars

SpecFraming == InitFraming /\ [][Next]_vars

\* The call with the settings dialog storing another configuration meanwhile.
NextConfigChange ==
    \/ Next
    \/ saveApiConfig

SpecConfigChange == Init /\ [][NextConfigChange]_vars

\* ------------------------------------------------------- reference notions
\* What the reader has handed out so far, and the newline-terminated lines
\* in it.
Consumed == SubSeq(wire, 1, pos)

CompleteLines(s) == Front(Split(s))

\* The delta a line carries for a wire shape: the line is "data: " followed
\* by one JSON text whose delta field is a non-empty string.
CarriedDelta(path, line) ==
    IF Len(line) = 3 /\ line[1] = "data:" /\ line[2] = " " /\ line[3] \in DOMAIN TokenValue
    THEN (IF path = "openai" THEN TokenValue[line[3]].content ELSE TokenValue[line[3]].text)
    ELSE <<>>

RECURSIVE DeltasOf(_, _)
DeltasOf(path, lines) ==
    IF lines = <<>> THEN <<>>
    ELSE (IF CarriedDelta(path, Head(lines)) = <<>> THEN <<>>
          ELSE <<CarriedDelta(path, Head(lines))>>) \o DeltasOf(path, Tail(lines))

\* A data line whose payload is not JSON
Malformed(line) ==
    /\ Len(line) >= 2 /\ line[1] = "data:" /\ line[2] = " "
    /\ Slice(line, 2) \in {<<"junk">>, <<"trunc">>, <<>>}

WellFormed(line) == ~Malformed(line)

DoneLine == <<"data:", " ", "[DONE]">>

RECURSIVE BeforeDone(_)
BeforeDone(lines) ==
    IF lines = <<>> \/ Head(lines) = DoneLine THEN <<>>
    ELSE <<Head(lines)>> \o BeforeDone(Tail(lines))

DirectPlan == op = "plan" /\ Direct /\ pc # "idle"

\* ------------------------------------------------------------------ claims

\* C1: a facade call that finds no configuration fails with 'API not
\* configured', issues no network request, arms no timer and never invokes
\* the progress callback.
C1_NoConfigFailsFast ==
    (pc # "idle" /\ apiConfig = NoConfig) =>
        /\ pc = "failed"
        /\ error = Error(<<"API not configured">>)
        /\ requests = <<>>
        /\ calls = <<>>
        /\ timer = "none"
        /\ status = "none"

C1_Witness ==
    /\ stored = NoConfig
    /\ op = "plan"
    /\ onChunk
    /\ pc = "failed"

\* C2: in direct-mode planning the callback has been invoked once per
\* complete data line carrying a delta, in stream order, the accumulated
\* text is the concatenation of those deltas in that order, and that text is
\* what the normalizer is handed.
C2_OrderPreserving ==
    DirectPlan =>
        LET deltas == DeltasOf(Path, CompleteLines(Consumed))
        IN  /\ onChunk => calls = deltas
            /\ fullText = Flatten(deltas)
            /\ normalizerInput # <<>> =>
                   normalizerInput = <<Flatten(DeltasOf(Path, CompleteLines(wire)))>>

C2_Witness ==
    /\ DirectPlan
    /\ onChunk
    /\ pc = "done"
    /\ calls = <<DeltaA, DeltaB>>
    /\ normalizerInput = <<DeltaA \o DeltaB>>

\* C3: in direct-mode planning every callback argument is the delta of one
\* data line of the stream, and the accumulated text always equals the
\* concatenation of the arguments passed so far.
C3_CallbackGetsDelta ==
    (DirectPlan /\ onChunk) =>
        /\ fullText = Flatten(calls)
        /\ \A i \in DOMAIN calls :
               \E k \in DOMAIN CompleteLines(Consumed) :
                   calls[i] = CarriedDelta(Path, CompleteLines(Consumed)[k])

C3_Witness ==
    /\ DirectPlan
    /\ onChunk
    /\ pc = "reading"
    /\ Len(calls) = 2
    /\ fullText = calls[1] \o calls[2]

\* C4: in direct-mode planning a data line whose payload is not JSON is
\* skipped: the callbacks and the accumulated text are those of the stream
\* without such lines, and the reassembly loop never fails the call.
C4_MalformedLineSkipped ==
    (DirectPlan /\ \E k \in DOMAIN CompleteLines(Consumed) : Malformed(CompleteLines(Consumed)[k])) =>
        LET kept == SelectSeq(CompleteLines(Consumed), WellFormed)
        IN  /\ onChunk => calls = DeltasOf(Path, kept)
            /\ fullText = Flatten(DeltasOf(Path, kept))
            /\ pc = "failed" => normalizerInput # <<>>

C4_Witness ==
    /\ DirectPlan
    /\ onChunk
    /\ \E a \in {"oA", "vA"}, b \in {"oB", "vB"} : wire = Line(a) \o Line("junk") \o Line(b)
    /\ pc = "done"
    /\ calls = <<DeltaA, DeltaB>>

\* C5: in proxied-mode planning an unparsable data line is tolerated: the
\* call never fails with the parse error of a line.
C5_ProxyToleratesUnparsable ==
    (op = "plan" /\ Path = "proxy" /\ pc = "failed") => error.name # "SyntaxError"

\* C6: the timeout bounds the whole direct-mode call: while a direct call
\* waits for the body of a 2xx response, its timeout is still pending.
C6_TimeoutBoundsBody ==
    (Direct /\ pc \in {"reading", "jsonbody"}) => timer \in {"armed", "fired"}

\* C7: a direct-mode request whose timer fires before any response is
\* aborted through its signal and fails with 'Request timeout after 180
\* seconds'; no other failure carries that message.
C7_TimeoutError ==
    (Direct /\ pc = "failed") =>
        /\ (aborted /\ status = "none") =>
               /\ error = Error(<<"Request timeout after ", "180", " seconds">>)
               /\ requests[1].signal
        /\ error.message = <<"Request timeout after ", "180", " seconds">> =>
               (aborted /\ status = "none" /\ timer = "fired")

C7_Witness ==
    /\ Direct
    /\ pc = "failed"
    /\ timer = "fired"
    /\ status = "none"
    /\ error.message = <<"Request timeout after ", "180", " seconds">>

\* C8: proxied-mode calls are bounded by the timeout: while a proxied call
\* is pending, a timeout is pending for it.
C8_ProxiedBounded ==
    (Path = "proxy" /\ pc \in {"fetch", "errbody", "reading", "jsonbody"}) =>
        timer \in {"armed", "fired"}

\* C9: once a planPresentation call has failed or returned it stays
\* settled and its progress callback is never invoked again.
C9_NoCallbackAfterSettled ==
    [][(op = "plan" /\ Settled) => (pc' = pc /\ calls' = calls /\ error' = error)]_vars

C9_Witness ==
    /\ op = "plan"
    /\ onChunk
    /\ pc = "failed"
    /\ status = "ok"
    /\ arrived > pos
    /\ \E k \in (pos + 1)..arrived : wire[k] = "pA"

\* C10: in an OpenAI-style direct planning stream nothing after the line
\* 'data: [DONE]' contributes a delta or triggers the callback.
C10_DoneEndsStream ==
    (DirectPlan /\ Path = "openai") =>
        LET deltas == DeltasOf("openai", BeforeDone(CompleteLines(Consumed)))
        IN  /\ onChunk => calls = deltas
            /\ fullText = Flatten(deltas)

NotDoneLine(line) == line # DoneLine

\* C11: in an OpenAI-style direct planning stream the line 'data: [DONE]'
\* is never data: callbacks and accumulated text are those of the stream
\* without the sentinel lines, the sentinel text is never accumulated, and
\* the reassembly loop does not fail the call.
C11_DoneNeverData ==
    (DirectPlan /\ Path = "openai"
        /\ \E k \in DOMAIN CompleteLines(Consumed) : CompleteLines(Consumed)[k] = DoneLine) =>
        LET kept == SelectSeq(CompleteLines(Consumed), NotDoneLine)
        IN  /\ onChunk => calls = DeltasOf("openai", kept)
            /\ fullText = Flatten(DeltasOf("openai", kept))
            /\ \A i \in DOMAIN fullText : fullText[i] # "[DONE]"
            /\ pc = "failed" => normalizerInput # <<>>

C11_Witness ==
    /\ DirectPlan
    /\ Path = "openai"
    /\ onChunk
    /\ wire = Line("[DONE]") \o Line("oA") \o Line("oB")
    /\ pc = "done"
    /\ calls = <<DeltaA, DeltaB>>

\* The error.message of an error body that is JSON carrying one, else "".
IsJsonBody(text) == Len(text) = 1 /\ text[1] \in DOMAIN TokenValue

UpstreamMessage(text) == IF IsJsonBody(text) THEN TokenValue[text[1]].errorMessage ELSE ""

DirectTransportFailure == Direct /\ pc = "failed" /\ status = "bad" /\ respBody.read = "error"

C13_DedicatedNormalizationError ==
    (DirectPlan /\ pc = "failed" /\ normalizerInput # <<>>) => error.name # "SyntaxError"

\* C14: whenever planPresentation returns a value, on any path, the value
\* has a title and a slides sequence.
C14_ShapeInvariance ==
    (op = "plan" /\ pc = "done") => (result.present /\ result.title /\ result.slides)

\* C15: whenever generateSlideImage returns a value, on any path, the value
\* is an image data string and not undefined.
C15_ImageNeverUndefined ==
    (op = "image" /\ pc = "done") => (image # Undefined /\ image # <<>>)

\* C16: a 2xx response to a direct-mode OpenAI image request that carries
\* no readable image URL fails the call with 'No image generated' and with
\* nothing else.
C16_NoUrlIsNoImage ==
    (op = "image" /\ Path = "openai" /\ respBody.read = "image" /\ respBody.json.valid
        /\ (respBody.json.images = <<>> \/ ~respBody.json.images[1].hasImageUrl)) =>
        (pc = "failed" /\ error = Error(<<"No image generated">>))

\* The index of the first part with inline data, 0 when there is none.
FirstDataPart(parts) ==
    LET S == {i \in DOMAIN parts : parts[i].data # ""}
    IN  IF S = {} THEN 0 ELSE CHOOSE i \in S : \A j \in S : i <= j

VertexImageRead ==
    op = "image" /\ Path = "vertex" /\ respBody.read = "image" /\ respBody.json.valid

Replay(path) ==
    ForEachLine(path, CompleteLines(Consumed), LoopState(<<>>, <<>>, NoPlan, NoError), onChunk)

\* C18: the transport of a call is that of the configuration snapshot: the
\* one request goes to apiBase iff the snapshot says client-direct and to
\* /api/plan or /api/gen otherwise, and the response is parsed as that path
\* parses it, whatever is stored in the meantime.
C18_TransportFixedBySnapshot ==
    (pc # "idle" /\ apiConfig # NoConfig) =>
        LET direct == apiConfig.requestMode = CLIENT_DIRECT
            path == PathOf(apiConfig)
        IN  /\ Len(requests) = 1
            /\ (requests[1].url[1] = "apiBase") <=> direct
            /\ ~direct => requests[1].url = IF op = "plan" THEN <<"/api/plan">> ELSE <<"/api/gen">>
            /\ op = "plan" =>
                /\ fullText = Replay(path).fullText
                /\ calls = Replay(path).calls
                /\ ~direct => result = Replay(path).result
                /\ Replay(path).threw # NoError => (pc = "failed" /\ error = Replay(path).threw)
                /\ (direct /\ pc = "done") =>
                        result = JSONparse(cleanJsonString(Replay(path).fullText)).val.plan
            /\ (op = "image" /\ pc = "done") => image = ImageOutcome(path, respBody.json).image

C18_Witness ==
    /\ op = "plan"
    /\ onChunk
    /\ pc = "done"
    /\ stored # apiConfig
    /\ PathOf(stored) # PathOf(apiConfig)
    /\ calls = <<DeltaA, DeltaB>>

OpenAIRequest(req) ==
    req.url = <<"apiBase", "/chat/completions">> /\ req.auth = "Authorization: Bearer"

VertexRequest(req) ==
    /\ Len(req.url) = 4
    /\ req.url[1] = "apiBase" /\ req.url[2] = "/models/"
    /\ req.url[4] \in {":streamGenerateContent?alt=sse", ":generateContent"}
    /\ req.auth = "X-Goog-Api-Key"

\* C19: the wire shape of a direct-mode call is that of the snapshot's
\* protocol: endpoint, authentication header and delta path are all OpenAI
\* when the protocol is OPENAI and all Vertex otherwise.
C19_WireShapeFixedByProtocol ==
    (pc # "idle" /\ apiConfig # NoConfig /\ apiConfig.requestMode = CLIENT_DIRECT) =>
        LET openai == apiConfig.protocol = OPENAI
            shape == IF openai THEN "openai" ELSE "vertex"
            deltas == DeltasOf(shape, CompleteLines(Consumed))
        IN  /\ Len(requests) = 1
            /\ IF openai THEN OpenAIRequest(requests[1]) /\ ~VertexRequest(requests[1])
                         ELSE VertexRequest(requests[1]) /\ ~OpenAIRequest(requests[1])
            /\ op = "plan" =>
                /\ fullText = Flatten(deltas)
                /\ onChunk => calls = deltas
            /\ (op = "image" /\ pc = "done") =>
                IF openai
                THEN respBody.json.images # <<>> /\ image = <<respBody.json.images[1].url>>
                ELSE respBody.json.parts # <<>> /\ image[1] = "data:"

C19_Witness ==
    /\ op = "plan"
    /\ pc = "done"
    /\ apiConfig = [protocol |-> OPENAI, requestMode |-> CLIENT_DIRECT]
    /\ OpenAIRequest(requests[1])
    /\ wire = Line("oA") \o Line("oB") \o Line("[DONE]")
    /\ fullText = DeltaA \o DeltaB

\* What the loop makes of the response of call c when it runs alone.
Own(c) == SubSeq(inflight.call[c].wire, 1, inflight.call[c].pos)

Alone(c) ==
    ForEachLine(PathOf(inflight.call[c].apiConfig), CompleteLines(Own(c)),
                LoopState(<<>>, <<>>, NoPlan, NoError), TRUE)

\* C20: concurrent planning calls do not interfere: callbacks, accumulated
\* text, carry-over and outcome of each call are those of that call running
\* alone on its own response, and a call fails with the timeout error only
\* when its own timer has fired.
C20_Reentrant ==
    \A c \in CallIds :
        LET call == inflight.call[c]
            acc == inflight.accumulator[c]
            path == PathOf(call.apiConfig)
        IN  /\ call.calls = Alone(c).calls
            /\ acc.fullText = Alone(c).fullText
            /\ acc.result = Alone(c).result
            /\ acc.buffer = Last(Split(Own(c)))
            /\ call.pc = "done" =>
                /\ Alone(c).threw = NoError
                /\ call.pos = Len(call.wire)
                /\ call.result = AfterLoop(path, Alone(c)).result
                /\ AfterLoop(path, Alone(c)).pc = "done"
            /\ (call.pc = "failed" /\ call.status = "ok") =>
                call.error = IF Alone(c).threw # NoError THEN Alone(c).threw
                             ELSE AfterLoop(path, Alone(c)).error
            /\ (call.pc = "failed" /\ call.error = Error(TimeoutMessage(DefaultTimeoutMs))) =>
                inflight.controller[c].timer = "fired"
            /\ inflight.controller[c].aborted => inflight.controller[c].timer = "fired"

C20_Witness ==
    /\ inflight.call[1].pc = "reading"
    /\ inflight.call[2].pc = "reading"
    /\ inflight.accumulator[1].fullText = DeltaA
    /\ inflight.accumulator[1].buffer # <<>>
    /\ inflight.accumulator[2].fullText = <<>>
    /\ inflight.accumulator[2].buffer # <<>>
    /\ inflight.call[1].calls = <<DeltaA>>

\* C21: a facade call issues at most one network request over its whole
\* lifetime, exactly one when a configuration is present, whatever the
\* outcome of the call.
C21_AtMostOneRequest ==
    /\ Len(requests) <= 1
    /\ pc # "idle" => (Len(requests) = 1 <=> apiConfig # NoConfig)
    /\ \A i \in DOMAIN requests : requests[i] = RequestOf(op, PathOf(apiConfig))

C21_Witness ==
    /\ op = "plan"
    /\ status = "ok"
    /\ pc = "failed"
    /\ error.name = "SyntaxError"
    /\ closed
    /\ Len(requests) = 1

\* A data line of the /api/plan stream whose record has a non-empty error.
ErrorRecord(line) ==
    /\ Len(line) = 3 /\ line[1] = "data:" /\ line[2] = " "
    /\ line[3] \in DOMAIN TokenValue
    /\ TokenValue[line[3]].error # ""

\* C22: in proxied-mode planning the first record with a non-empty error
\* field that the loop reaches fails the call with that field as message,
\* whatever its text.
C22_ErrorRecordFails ==
    (op = "plan" /\ Path = "proxy" /\ pc # "idle") =>
        LET lines == CompleteLines(Consumed)
        IN  \A k \in DOMAIN lines :
                (/\ ErrorRecord(lines[k])
                 /\ \A j \in 1..(k - 1) : ~ErrorRecord(lines[j]) /\ Slice(lines[j], 2) # <<"junk">>)
                => (pc = "failed" /\ error = Error(<<TokenValue[lines[k][3]].error>>))

\* C23: an exception thrown by the caller's progress callback propagates:
\* with a callback that throws, the first invocation fails the call with
\* the callback's exception and is the last one.
C23_CallbackErrorPropagates ==
    (op = "plan" /\ onChunk /\ callbackThrows /\ calls # <<>>) =>
        (pc = "failed" /\ error = CallbackError /\ Len(calls) = 1)

\* C24: the callbacks, the accumulated text and the result seen so far do
\* not depend on how the stream was split into chunks: they are those of
\* the whole of what has been read handed out as one chunk, and the
\* carry-over is the unterminated rest of it.
C24_ChunkingInvariance ==
    (op = "plan" /\ status = "ok" /\ pc \in {"reading", "done", "failed"}) =>
        LET whole == Split(Consumed)
            once == ForEachLine(Path, SubSeq(whole, 1, Len(whole) - 1),
                                LoopState(<<>>, <<>>, NoPlan, NoError), onChunk)
        IN  /\ calls = once.calls
            /\ fullText = once.fullText
            /\ Path = "proxy" => result = once.result
            /\ buffer = whole[Len(whole)]
            /\ once.threw # NoError => (pc = "failed" /\ error = once.threw)

C24_Witness ==
    /\ op = "plan"
    /\ onChunk
    /\ pc = "reading"
    /\ buffer = <<"data:", " ", "oA">>
    /\ wire = Line("oA") \o <<"data:", " ", "oA">>
    /\ calls = <<DeltaA>>

\* A data line whose payload is JSON without text at the Vertex delta path.
NoTextLine(line) ==
    /\ Len(line) = 3 /\ line[1] = "data:" /\ line[2] = " "
    /\ line[3] \in DOMAIN TokenValue
    /\ TokenValue[line[3]].text = <<>>

HasText(line) == ~NoTextLine(line)

\* C25: in a Vertex-style direct planning stream a data line whose JSON has
\* no text at the delta path is skipped: callbacks and accumulated text are
\* those of the stream without such lines, one callback per remaining delta,
\* and the reassembly loop does not fail the call.
C25_NoTextLineSkipped ==
    (DirectPlan /\ Path = "vertex"
        /\ \E k \in DOMAIN CompleteLines(Consumed) : NoTextLine(CompleteLines(Consumed)[k])) =>
        LET kept == SelectSeq(CompleteLines(Consumed), HasText)
        IN  /\ onChunk => calls = DeltasOf("vertex", kept)
            /\ ~onChunk => calls = <<>>
            /\ \A i \in DOMAIN calls : calls[i] # <<>>
            /\ fullText = Flatten(DeltasOf("vertex", kept))
            /\ pc = "failed" => normalizerInput # <<>>

C25_Witness ==
    /\ DirectPlan
    /\ Path = "vertex"
    /\ onChunk
    /\ wire = Line("vA") \o Line("vNone") \o Line("vB")
    /\ pc = "done"
    /\ calls = <<DeltaA, DeltaB>>

\* C26: a 2xx planning response without a readable body fails the call with
\* 'No response body' on every path; the callback is not invoked, nothing is
\* accumulated and no result is parsed or accepted.
C26_NoResponseBody ==
    (op = "plan" /\ respBody.read = "absent") =>
        /\ pc = "failed"
        /\ error = Error(<<"No response body">>)
        /\ calls = <<>>
        /\ fullText = <<>>
        /\ normalizerInput = <<>>
        /\ result = NoPlan
        /\ pos = 0

C26_Witness ==
    /\ op = "plan"
    /\ Path = "proxy"
    /\ status = "ok"
    /\ respBody.read = "absent"
    /\ error = Error(<<"No response body">>)

HeaderNames(req) == {h.name : h \in req.headers}

Units(s) == {s[i] : i \in DOMAIN s}

\* C27: in direct mode every Vertex-style request carries the API key in
\* X-Goog-Api-Key and no Authorization header, every OpenAI-compatible request
\* carries Authorization: Bearer <apiKey> and no X-Goog-Api-Key header, for
\* planning and image generation alike; the key is never part of the URL.
C27_AuthHeaderPerShape ==
    \A i \in DOMAIN requests :
        LET req == requests[i]
        IN  /\ "apiKey" \notin Units(req.url)
            /\ Path = "vertex" =>
                /\ Header("X-Goog-Api-Key", <<"apiKey">>) \in req.headers
                /\ "Authorization" \notin HeaderNames(req)
            /\ Path = "openai" =>
                /\ Header("Authorization", <<"Bearer ", "apiKey">>) \in req.headers
                /\ "X-Goog-Api-Key" \notin HeaderNames(req)

C27_Witness ==
    /\ op = "image"
    /\ Path = "vertex"
    /\ pc = "done"
    /\ Len(requests) = 1
    /\ requests[1].headers = {Header("Content-Type", <<"application/json">>),
                              Header("X-Goog-Api-Key", <<"apiKey">>)}

\* C28: in direct mode with the OPENAI protocol generateSlideImage issues one
\* POST to <apiBase>/chat/completions asking for the modalities image and
\* text, and its result is the url of the first entry of the message's
\* images and nothing else: it never posts to /images/generations, and a
\* top-level data[0].b64_json in the answer is never read, so an answer
\* carrying only that is the "No image generated" failure.
C28_SingleOpenAIImageConvention ==
    (op = "image" /\ Path = "openai" /\ pc # "idle") =>
        /\ Len(requests) = 1
        /\ requests[1].url = <<"apiBase", "/chat/completions">>
        /\ "/images/generations" \notin Units(requests[1].url)
        /\ requests[1].body.modalities = <<"image", "text">>
        /\ (respBody.read = "image" /\ respBody.json.valid) =>
            LET body == respBody.json
            IN  /\ pc = "done" =>
                    body.images # <<>> /\ image = <<body.images[1].url>>
                /\ body.images = <<>> =>
                    pc = "failed" /\ error = Error(<<"No image generated">>) /\ image = <<>>

C28_Witness ==
    /\ op = "image"
    /\ Path = "openai"
    /\ pc = "failed"
    /\ error = Error(<<"No image generated">>)
    /\ respBody.json = WithData(ImageBody(TRUE, <<>>, <<>>, ""), <<DataEntry("b64")>>)

\* The first entry of the answer's data array carries a non-empty b64_json.
HasB64(body) == body.data # <<>> /\ body.data[1].b64_json # ""

\* An answer that parsed to a JSON object.
ParsedObject(body) == body.valid /\ ~body.isNull

\* What C29 says of a 2xx answer whose body has been handled.
ImageFromB64(body) ==
    IF HasB64(body)
    THEN pc = "done" /\ image = <<"data:image/png;base64,", body.data[1].b64_json>>
    ELSE pc = "failed" /\ error = Error(<<"No image generated">>) /\ image = <<>>

\* What C29 says of a non-2xx response and of an abort.
ImagesFailures ==
    /\ Len(requests) = 1 /\ requests[1].url = <<"apiBase", "/images/generations">>
    /\ (status = "bad" /\ Settled) =>
        /\ pc = "failed"
        /\ error = Error(<<"API error: ",
                           IF UpstreamMessage(respBody.text) # ""
                           THEN UpstreamMessage(respBody.text) ELSE StatusText>>)
    /\ (status = "none" /\ aborted /\ Settled) =>
        pc = "failed" /\ error = Error(TimeoutMessage(ImageTimeoutMs))

C30_CarryOverDiscarded ==
    (op = "plan" /\ status = "ok" /\ Settled /\ closed /\ pos = Len(wire)) =>
        LET once == ForEachLine(Path, CompleteLines(wire),
                                LoopState(<<>>, <<>>, NoPlan, NoError), onChunk)
        IN  /\ buffer = Last(Split(wire))
            /\ fullText = once.fullText
            /\ calls = once.calls
            /\ Direct => normalizerInput = <<once.fullText>>
            /\ Path = "proxy" =>
                /\ result = once.result
                /\ (once.threw = NoError /\ ~once.result.present) =>
                    pc = "failed" /\ error = Error(<<"No result received from stream">>)

C30_Witness ==
    /\ op = "plan"
    /\ Path = "proxy"
    /\ closed
    /\ wire = <<"data:", " ", "pDone1">>
    /\ buffer = wire
    /\ pc = "failed"
    /\ error = Error(<<"No result received from stream">>)

\* The result of a record that has both done and result, NoPlan for any
\* other line.
ResultOf(line) ==
    IF Len(line) = 3 /\ line[1] = "data:" /\ line[2] = " " /\ line[3] \in DOMAIN TokenValue
       /\ TokenValue[line[3]].done
    THEN TokenValue[line[3]].result
    ELSE NoPlan

\* The results of the done+result records among lines, in order.
ResultsIn(lines) ==
    SelectSeq([k \in DOMAIN lines |-> ResultOf(lines[k])], LAMBDA r : r.present)

\* C31: a proxied planning call returns only once the reader has signalled
\* completion, and what it returns is the result of the last record having
\* both done and result; a stream read to its end without such a record never
\* makes the call return, and fails it with 'No result received from stream'
\* unless a line failed it before.
C31_LastResultAtCompletion ==
    (op = "plan" /\ Path = "proxy" /\ status = "ok") =>
        LET lines == CompleteLines(wire)
            results == ResultsIn(lines)
            once == ForEachLine("proxy", lines, LoopState(<<>>, <<>>, NoPlan, NoError), onChunk)
        IN  /\ pc = "done" =>
                /\ closed /\ pos = Len(wire)
                /\ results # <<>>
                /\ result = Last(results)
                /\ result.present
            /\ (Settled /\ closed /\ pos = Len(wire) /\ results = <<>>) =>
                /\ pc = "failed"
                /\ once.threw = NoError => error = Error(<<"No result received from stream">>)

C31_Witness ==
    /\ op = "plan"
    /\ Path = "proxy"
    /\ pc = "done"
    /\ wire = Line("pDone1") \o Line("pDone2")
    /\ result = TitleOnly(2)

\* The direct request function of the call has returned or thrown.
RequestFunctionLeft == Direct /\ pc \in {"reading", "jsonbody", "done", "failed"}

\* C32: once a direct-mode request function has returned or thrown, the
\* timer it armed is no longer armed, whichever way it was left (2xx, non-2xx,
\* network failure, abort), and from then on the controller's signal never
\* changes: a finished call is not aborted later.
C32_TimerCancelledOnExit ==
    /\ [](RequestFunctionLeft => timer \in {"cleared", "fired"})
    /\ [][RequestFunctionLeft => (aborted' = aborted /\ timer' # "armed")]_vars

C32_Witness ==
    /\ op = "image"
    /\ Direct
    /\ status = "bad"
    /\ pc = "failed"
    /\ ~aborted
    /\ timer = "cleared"

\* What stands at the delta field of a line for a path (content, text or
\* chunk), <<>> when the line is no JSON data line or the field is empty,
\* null or missing.
DeltaField(path, line) ==
    IF Len(line) = 3 /\ line[1] = "data:" /\ line[2] = " " /\ line[3] \in DOMAIN TokenValue
    THEN (CASE path = "openai" -> TokenValue[line[3]].content
            [] path = "vertex" -> TokenValue[line[3]].text
            [] OTHER -> TokenValue[line[3]].chunk)
    ELSE <<>>

\* The non-empty delta fields among lines, in order.
NonEmptyDeltas(path, lines) ==
    SelectSeq([k \in DOMAIN lines |-> DeltaField(path, lines[k])], LAMBDA x : x # <<>>)

\* C33: the progress callback is never invoked with an empty delta: every
\* invocation carries a non-empty delta, there are no more invocations than
\* lines with a non-empty delta field, and on the direct paths the
\* accumulated text is made of the non-empty deltas alone, one callback each.
C33_NoEmptyDelta ==
    (op = "plan" /\ status = "ok" /\ pc # "idle") =>
        LET deltas == NonEmptyDeltas(Path, CompleteLines(Consumed))
        IN  /\ \A i \in DOMAIN calls : calls[i] # <<>>
            /\ Len(calls) <= Len(deltas)
            /\ \A i \in DOMAIN calls : calls[i] = deltas[i]
            /\ Direct => (fullText = Flatten(deltas) /\ (onChunk => calls = deltas))

C33_Witness ==
    /\ op = "plan"
    /\ onChunk
    /\ Path = "openai"
    /\ pc = "reading"
    /\ wire = Line("oNone") \o Line("oA") \o Line("oNone")
    /\ pos = Len(wire)
    /\ calls = <<DeltaA>>
    /\ fullText = DeltaA

\* A line that begins with the six characters 'data: '.
IsDataLine(line) == Len(line) >= 2 /\ line[1] = "data:" /\ line[2] = " "

\* C34: only lines beginning with 'data: ' are interpreted: on every
\* streaming path the accumulated text, the callbacks, the result and a
\* failure of the loop are those of the stream with every other line (empty,
\* another field, comment, 'data:' without the space) removed, whatever such
\* a line carries.
C34_OnlyDataLinesInterpreted ==
    (op = "plan" /\ status = "ok" /\ pc # "idle") =>
        LET lines == CompleteLines(Consumed)
            once == ForEachLine(Path, SelectSeq(lines, IsDataLine),
                                LoopState(<<>>, <<>>, NoPlan, NoError), onChunk)
        IN  /\ calls = once.calls
            /\ fullText = once.fullText
            /\ Path = "proxy" => result = once.result
            /\ once.threw # NoError => (pc = "failed" /\ error = once.threw)
            /\ (once.threw = NoError /\ pc = "failed") =>
                \/ respBody.read = "absent"
                \/ Direct /\ normalizerInput # <<>>
                \/ Path = "proxy" /\ closed /\ error = Error(<<"No result received from stream">>)

C34_Witness ==
    /\ op = "plan"
    /\ onChunk
    /\ Path = "proxy"
    /\ wire = NoSpaceLine("pErr") \o FieldLine("event:", "pDone2") \o Line("pDone1")
    /\ pc = "done"
    /\ result = PlanResult(1)
    /\ calls = <<>>

\* The 'error' field of an error body that is JSON carrying one, else "".
ProxyErrorField(text) == IF IsJsonBody(text) THEN TokenValue[text[1]].error ELSE ""

\* C35: a non-2xx response fails a facade call before any reassembly: no
\* piece of the body is read as a stream, the callback is not invoked,
\* nothing is accumulated, normalized, parsed or returned, and the call ends
\* failed; in proxied mode the message is the 'error' field of the JSON error
\* body when there is one and the HTTP status text otherwise.
C35_NonOkFailsBeforeReassembly ==
    status = "bad" =>
        /\ pc \in {"errbody", "failed"}
        /\ respBody.read \in {"none", "error", "unreadable"}
        /\ wire = <<>> /\ pos = 0 /\ buffer = <<>>
        /\ calls = <<>> /\ fullText = <<>> /\ normalizerInput = <<>>
        /\ result = NoPlan /\ image = <<>>
        /\ (pc = "failed" /\ Path = "proxy") =>
            error = Error(<<IF ProxyErrorField(respBody.text) # ""
                            THEN ProxyErrorField(respBody.text) ELSE StatusText>>)

C35_Witness ==
    /\ op = "plan"
    /\ onChunk
    /\ Path = "proxy"
    /\ status = "bad"
    /\ pc = "failed"
    /\ respBody.text = <<"pErr">>
    /\ error = Error(<<"E">>)

\* The request of an upstream call names this method.
Calls(req, method) == req.url[4] = method

\* The image handler has issued its first upstream request.
ImageHandlerCalled == route.body.action = "generate-image" /\ route.upstream # <<>>

\* What C36 says of the order and number of the upstream calls.
ImagenFirstGeminiIfNonOk ==
    /\ Len(route.upstream) <= 2
    /\ Calls(route.upstream[1], ":predict")
    /\ Len(route.upstream) = 2 <=> route.imagen.status = "bad"
    /\ Len(route.upstream) = 2 => Calls(route.upstream[2], ":generateContent")

\* The Imagen answer is 2xx and has been handled.
ImagenOkHandled == route.imagen.status = "ok" /\ route.pc = "answered"

IllFormed(body) ==
    \/ body.action = "" \/ ~body.payload
    \/ body.action \notin RouteActions
    \/ body.prompt = ""

\* C37: the route makes no upstream request unless the request is
\* well-formed.  Without an API key (no x-api-key header and no
\* GEMINI_API_KEY) it answers 500 with an error; with a key, a JSON body in
\* which action or payload is missing, the action is unknown or the payload
\* lacks prompt is answered 400; in both cases, and for a body that is not
\* JSON, no upstream request is issued.  Every upstream request carries the
\* header key when there is one, the environment key otherwise.
C37_NoUpstreamUnlessWellFormed ==
    route.pc # "idle" =>
        LET keyless == route.headerKey = "" /\ route.envKey = ""
        IN  /\ keyless =>
                /\ route.pc = "answered"
                /\ route.answer.status = 500 /\ route.answer.error # <<>>
                /\ route.upstream = <<>>
            /\ (~keyless /\ route.body.json /\ IllFormed(route.body)) =>
                /\ route.pc = "answered"
                /\ route.answer.status = 400 /\ route.answer.error # <<>>
                /\ route.upstream = <<>>
            /\ ~route.body.json => route.upstream = <<>>
            /\ \A i \in DOMAIN route.upstream :
                route.upstream[i].url[6] =
                    IF route.headerKey # "" THEN route.headerKey ELSE route.envKey

C37_Witness ==
    /\ route.headerKey = "H"
    /\ route.envKey = "G"
    /\ route.body.action = "plan-presentation"
    /\ route.pc = "gemini"
    /\ route.upstream = <<UpstreamRequest("gemini-2.5-flash", ":generateContent", "H")>>

\* The text is empty or made of spaces only.
IsBlank(s) == \A i \in DOMAIN s : s[i] = " "

\* The text without the spaces around it: from its first to its last unit
\* that is no space.
Stripped(s) ==
    LET solid == {i \in DOMAIN s : s[i] # " "}
    IN  IF solid = {} THEN <<>>
        ELSE SubSeq(s, CHOOSE i \in solid : \A j \in solid : i <= j,
                       CHOOSE i \in solid : \A j \in solid : i >= j)

\* C38: a submit of the configuration form saves the configuration and calls
\* onKeyConfigured only if the four text fields are all non-blank after
\* trimming, and then what is stored is the protocol and the trimmed fields;
\* with a blank field the storage is as before, onKeyConfigured is not called
\* and an error is shown; after a save that threw onKeyConfigured is not
\* called; and submitting is false after every submit.
C38_SubmitSavesOnlyComplete ==
    [][modal'.submit.turn # modal.submit.turn =>
        LET c == modal.config
            complete == \A f \in FieldNames : ~IsBlank(c[f])
            after == modal'
        IN  /\ ~after.submitting
            /\ after.config = c
            /\ ~complete =>
                /\ after.submit.save = "none"
                /\ after.storage = modal.storage
                /\ ~after.submit.notified
                /\ after.error # ""
            /\ complete => after.submit.save # "none"
            /\ after.submit.save = "ok" =>
                /\ after.submit.notified
                /\ after.storage = FormConfig(c.protocol, Stripped(c.apiKey), Stripped(c.apiBase),
                                              Stripped(c.contentModelId),
                                              Stripped(c.imageModelId))
            /\ after.submit.save = "threw" =>
                /\ ~after.submit.notified
                /\ after.storage = modal.storage
                /\ after.error = "errorFailed"]_vars

C38_Witness ==
    /\ modal.config.apiKey = <<" ", "k", " ">>
    /\ modal.submit.save = "ok"
    /\ modal.submit.notified
    /\ modal.storage = FormConfig(OPENAI, <<"k">>, <<"k">>, <<"k">>, <<"k">>)
    /\ modal.error = ""
====
